---- MODULE Spec2Model ----
(***************************************************************************)
(* Model of the scene stack, the scene lifecycle and the main loop of      *)
(* py_diamond (src/py_diamond/window/scene.py).                            *)
(*                                                                         *)
(* The program is single threaded.  run() is modelled as one process whose *)
(* position is pc; the scene hooks are user code and are the inputs of the *)
(* model: a hook returns, or navigates (start/stop), or raises, or closes  *)
(* the window.  An exception in flight is the variable sig; the except and *)
(* finally clauses of run() are the actions that consume it.               *)
(***************************************************************************)
EXTENDS Integers, Sequences, FiniteSets, TLC

\* ------------------------------------------------------------------ bounds

FixedDelta == 1         \* Time.fixed_delta(), in clock units
MaxElapsed == 1         \* largest elapsed time one refresh() reports
MaxCalls == 3           \* navigation calls (start/stop) the hooks make in one run
MaxFrameElapsed == 3    \* largest elapsed time of a refresh() in FrameSpec
AlphaSteps == 2          \* interpolation values are 0, 1/AlphaSteps, .., 1
MaxBuilds == 2           \* builder calls on the animation set
MaxTicks == 3            \* fixed ticks of the animation set
MaxTries == 4            \* constructions of scenes and managers tried
MaxLayer == 2            \* largest layer given to a layered group

\* the concrete scene kinds registered in _ALL_SCENES; the manager holds one
\* instance of each (line 768), so a kind stands for its instance
Scenes == {"A", "B", "C"}
None == "None"

\* the scene kind the application passes to run(); the kinds are
\* interchangeable, so one choice stands for all
DefaultScenes == {"A"}

\* transition arguments of go_to: no transition, a SceneTransition that is
\* not returning, a ReturningSceneTransition
Transitions == {"none", "plain", "returning"}

\* isinstance(transition, ReturningSceneTransition)
IsReturning(t) == t = "returning"

\* the bound method put in NewScene.transition
NoRoutine == [routine |-> "none", of |-> "none"]
ShowRoutine(t) == [routine |-> "show", of |-> t]
HideRoutine(t) == [routine |-> "hide", of |-> t]

\* what a scene's awake() hook does: it acquires its resources (a callback
\* registered on the scene's exit_stack) and returns, or it raises
AwakeOutcomes == {"ok", "Exception", "SceneException"}

\* ------------------------------------------------------------------- state

VARIABLES
    stack,                  \* _SceneManager.__stack, front (active scene) first
    awaken,                 \* _SceneManager.__awaken
    returning_transitions,  \* _SceneManager.__returning_transitions ("none": no entry)
    exit_callbacks,         \* callbacks registered on each scene's exit_stack
    running,                \* SceneWindow.__running
    is_open,                \* Window.is_open()
    accumulator,            \* SceneWindow.__accumulator
    pc,                     \* position of run()
    sig,                    \* the exception in flight
    req,                    \* the NewScene whose transition is being executed
    entered,                \* scenes whose exit_stack object all_scenes_stack holds
    closing_i,              \* index of the closing scene __scene_transition is at
    animating,              \* local "animating" of __scene_transition
    raised,                 \* the exception run() ended with ("none": it returned)
    navigations,            \* navigation calls (start/stop) the hooks have made
    nav,                    \* history: the last call made by a hook
    quit_calls,             \* history: on_quit() calls of a scene since the last go_to
    released_on_stack,      \* history: scenes whose exit callbacks ran while on the
                            \*   stack, since the loop last began an iteration
    yielded_with,           \* history: returning transition given when a scene yielded
    looping,                \* history: the scenes whose on_start_loop() has returned
                            \*   and whose on_quit() has not returned since
    callback_after,         \* Scene.__callback_after of each scene holds a callback
    callback_after_scenes,  \* SceneWindow.__callback_after_scenes of each scene:
                            \*   "none": no entry, "list": the scene's present
                            \*   list, "old": the list of an earlier life
    frame,                  \* history: the calls of the frame in progress, in order,
                            \*   and the accumulator its fixed-update phase began with
    transformable,          \* the animated object: its angle, scale and center
    previous_state,         \* AnimationInterpolator.__previous_state
    actual_state,           \* AnimationInterpolator.__actual_state
    animations,             \* TransformAnimation.__animations, in insertion order
    wait,                   \* TransformAnimation.__wait
    shadow,                 \* history: the same object and tasks, driven by the same
                            \*   builders and fixed ticks but never interpolated
    blend,                  \* history: the last interpolated update applied to the
                            \*   snapshots held, whether one was since the last tick, and
                            \*   whether reset() was called since the last tick
    tick,                   \* history: the last fixed tick of the animation set
    built,                  \* history: the last builder call
    calls,                  \* history: builder calls and fixed ticks made so far,
                            \*   whether a task was stopped from outside a tick, and
                            \*   the tasks a set that begins started was given
    on_stop,                \* TransformAnimation.__on_stop (TRUE: a callback is held)
    fired,                  \* history: invocations of the on_stop callback so far
    destroyed,              \* history: the last _destroy_awaken_scene call
    scene_instances,        \* Scene.__instances: the kinds that have an instance
    all_scenes,             \* _SceneManager.__all of the manager alive ({}: no manager)
    constructed,            \* history: the last construction tried
    drawable_list,          \* DrawableGroup.__list of a LayeredGroup
    layer_dict              \* LayeredGroup.__layer_dict, in insertion order

window == <<stack, awaken, returning_transitions, exit_callbacks, running, is_open,
            accumulator, pc, sig, req, entered, closing_i, animating, raised,
            navigations, nav, quit_calls, released_on_stack, yielded_with, frame,
            looping, callback_after, callback_after_scenes>>

animation == <<transformable, previous_state, actual_state, animations, wait, shadow,
               blend, tick, built, calls, on_stop, fired>>

kinds == <<scene_instances, all_scenes, constructed>>

group == <<drawable_list, layer_dict>>

instances == <<destroyed, kinds, group>>

vars == <<window, animation, instances>>

manager == <<stack, awaken, returning_transitions>>
history == <<nav, quit_calls, released_on_stack, yielded_with, frame>>
callbacks == <<callback_after, callback_after_scenes>>
marks == <<looping, callbacks>>

\* --------------------------------------------------------------- sequences

RECURSIVE SeqRemove(_, _)
\* list.remove(x): the list without its first x
SeqRemove(s, x) ==
    IF s = <<>> THEN <<>>
    ELSE IF Head(s) = x THEN Tail(s)
    ELSE <<Head(s)>> \o SeqRemove(Tail(s), x)

Range(s) == {s[i] : i \in 1..Len(s)}

\* index of x in s (0 when absent)
RECURSIVE IndexOf(_, _)
IndexOf(s, x) ==
    IF s = <<>> THEN 0
    ELSE IF Head(s) = x THEN 1
    ELSE IF IndexOf(Tail(s), x) = 0 THEN 0 ELSE 1 + IndexOf(Tail(s), x)

Min(a, b) == IF a <= b THEN a ELSE b

\* ----------------------------------------------------------- exceptions

NoSig == [type |-> "none", previous |-> None, actual |-> None,
          transition |-> NoRoutine, closing |-> <<>>]

\* _SceneManager.NewScene(previous_scene, actual_scene, transition, closing_scenes)
NewScene(previous_scene, actual_scene, transition, closing_scenes) ==
    [type |-> "NewScene", previous |-> previous_scene, actual |-> actual_scene,
     transition |-> transition, closing |-> closing_scenes]

\* any exception that carries no scene data
Exc(type) == [NoSig EXCEPT !.type = type]

\* issubclass(type, _SceneManager.SceneException)
IsSceneException(type) == type \in {"NewScene", "SameScene", "SceneException"}

\* history of the last call a hook made: what it was and the state it found
NoNav == [op |-> "none", scene |-> None, transition |-> "none", remove |-> FALSE,
          stack_before |-> <<>>, awaken_before |-> {},
          rt_before |-> [s \in Scenes |-> "none"],
          awoke |-> None,
          yielded_before |-> [s \in Scenes |-> "none"]]

\* ---------------------------------------------------- _SceneManager.go_to

\* a go_to that pushes its target whether or not the stack holds it
ShouldPushAlways(actual_scene, next_scene, st) == TRUE

\* scene.py line 853: the target is pushed, not popped to
ShouldPush(actual_scene, next_scene, st) ==
    actual_scene = None \/ next_scene \notin Range(st)

\* a go_to that leaves the former front on the stack whatever remove_actual is
StackAfterPushKeepsActual(st, actual_scene, next_scene, remove_actual) ==
    <<next_scene>> \o st

\* scene.py lines 857-863: the stack once next_scene is pushed and awake
StackAfterPush(st, actual_scene, next_scene, remove_actual) ==
    IF actual_scene # None /\ remove_actual
    THEN SeqRemove(<<next_scene>> \o st, actual_scene)
    ELSE <<next_scene>> \o st

\* scene.py lines 858-859: the registry once next_scene is pushed and awake
RegistryAfterPush(rt, actual_scene, transition) ==
    IF actual_scene # None /\ IsReturning(transition)
    THEN [rt EXCEPT ![actual_scene] = transition]
    ELSE rt

\* scene.py lines 860-861
PushRoutine(actual_scene, transition) ==
    IF actual_scene # None /\ transition # "none"
    THEN ShowRoutine(transition)
    ELSE NoRoutine

\* scene.py lines 866-867: the scenes stack.pop(0) removes, in pop order
PoppedScenes(st, next_scene) == SubSeq(st, 1, IndexOf(st, next_scene) - 1)

\* scene.py lines 866-867: the stack left when stack[0] is next_scene
StackAfterPop(st, next_scene) == SubSeq(st, IndexOf(st, next_scene), Len(st))

\* a go_to that lists every popped scene, the former front included
ClosingScenesAll(popped, actual_scene) == popped

\* a go_to that lists no closing scene
ClosingScenesNone(popped, actual_scene) == <<>>

\* scene.py lines 868-869: closing_scenes
ClosingScenes(popped, actual_scene) ==
    SelectSeq(popped, LAMBDA s : s # actual_scene)

\* scene.py lines 865 and 870: the registry after the pops
RegistryAfterPop(rt, scene, popped) ==
    [s \in Scenes |-> IF s = scene \/ s \in Range(popped) THEN "none" ELSE rt[s]]

\* a go_to that prefers the transition it is passed to the registered one
PopRoutinePassedFirst(returning_transition, transition) ==
    IF transition # "none"
    THEN IF IsReturning(transition) THEN HideRoutine(transition)
         ELSE ShowRoutine(transition)
    ELSE IF returning_transition # "none" THEN HideRoutine(returning_transition)
         ELSE NoRoutine

\* scene.py lines 871-878
PopRoutine(returning_transition, transition) ==
    IF returning_transition # "none" THEN HideRoutine(returning_transition)
    ELSE IF transition # "none"
         THEN IF IsReturning(transition) THEN HideRoutine(transition)
              ELSE ShowRoutine(transition)
         ELSE NoRoutine

\* _SceneManager.go_to on manager state (st, aw, rt); awk is what awake() does
\* if it is called.  The result: the manager state left behind, the exception
\* raised, the scene whose awake() was invoked (None: no awake() call).
GoTo(st, aw, rt, scene, transition, remove_actual, awk) ==
    LET next_scene == scene
        actual_scene == IF st # <<>> THEN Head(st) ELSE None
        same == [stack |-> st, awaken |-> aw, rt |-> rt, awoke |-> None]
    IN  IF actual_scene = next_scene
        THEN same @@ [sig |-> Exc("SameScene")]
        ELSE IF ShouldPush(actual_scene, next_scene, st)
        THEN IF awk \in {"Exception", "SceneException"}
             THEN \* awake() raised: lines 856-863 are not reached
                  [stack |-> <<next_scene>> \o st, awaken |-> aw, rt |-> rt,
                   awoke |-> next_scene, sig |-> Exc(awk)]
             ELSE [stack |-> StackAfterPush(st, actual_scene, next_scene, remove_actual),
                   awaken |-> aw \cup {next_scene},
                   rt |-> RegistryAfterPush(rt, actual_scene, transition),
                   awoke |-> next_scene,
                   sig |-> NewScene(actual_scene, next_scene,
                                    PushRoutine(actual_scene, transition), <<>>)]
        ELSE LET popped == PoppedScenes(st, next_scene)
             IN  [stack |-> StackAfterPop(st, next_scene),
                  awaken |-> aw,
                  rt |-> RegistryAfterPop(rt, scene, popped),
                  awoke |-> None,
                  sig |-> NewScene(actual_scene, next_scene,
                                   PopRoutine(rt[scene], transition),
                                   ClosingScenes(popped, actual_scene))]

\* ------------------------------------------- exit stacks and scene destroy

\* The lifecycle part of the state as one record, so that clear() and the
\* transition can be written as compositions of single destroys.
Life == [stack |-> stack, awaken |-> awaken, callbacks |-> exit_callbacks,
         entered |-> entered,
         quit_calls |-> quit_calls, released |-> released_on_stack,
         looping |-> looping,
         callback_after |-> callback_after,
         callback_after_scenes |-> callback_after_scenes]

\* ExitStack.__exit__ of the exit_stack of scene s: its callbacks are run and
\* dropped (history: were they run while s was on the stack)
CloseExitStack(l, s) ==
    IF l.callbacks[s]
    THEN [l EXCEPT !.callbacks[s] = FALSE,
                   !.released = IF s \in Range(l.stack) THEN @ \cup {s} ELSE @]
    ELSE l

RECURSIVE CloseExitStacks(_, _)
CloseExitStacks(l, S) ==
    IF S = {} THEN l
    ELSE LET s == CHOOSE x \in S : TRUE
         IN  CloseExitStacks(CloseExitStack(l, s), S \ {s})

\* _SceneManager._destroy_awaken_scene: the exit stack is closed in both
\* branches; an awaken scene leaves the awaken set and is re-initialised,
\* which gives it a new, empty ExitStack object
DestroyAwakenScene(l, s) ==
    IF s \in l.awaken
    THEN [CloseExitStack([l EXCEPT !.awaken = @ \ {s}], s)
            EXCEPT !.entered = @ \ {s},
                   !.callback_after[s] = FALSE,
                   !.callback_after_scenes[s] = IF @ = "list" THEN "old" ELSE @]
    ELSE CloseExitStack(l, s)

\* scene.on_quit() returning normally (history only)
OnQuit(l, s) == [l EXCEPT !.quit_calls[s] = Min(@ + 1, 2),
                          !.looping = @ \ {s}]

\* scene.on_start_loop() returning normally (history only)
OnStartLoop(b, s) == b \cup {s}

RECURSIVE ClearLife(_)
\* _SceneManager.clear(), lines 817-821 (the hooks return normally)
ClearLife(l) ==
    IF l.stack = <<>> THEN l
    ELSE LET scene == Head(l.stack)
             popped == [l EXCEPT !.stack = Tail(@)]
         IN  ClearLife(DestroyAwakenScene(OnQuit(popped, scene), scene))

SetLife(l) ==
    /\ stack' = l.stack
    /\ awaken' = l.awaken
    /\ exit_callbacks' = l.callbacks
    /\ entered' = l.entered
    /\ quit_calls' = l.quit_calls
    /\ released_on_stack' = l.released
    /\ looping' = l.looping
    /\ callback_after' = l.callback_after
    /\ callback_after_scenes' = l.callback_after_scenes

\* -------------------------------------------------- window and go_back

\* Window.close(): the window stops being open and the call does not return
\* (go_back, annotated NoReturn, falls through to stack[1] otherwise)
WindowClose == [is_open |-> FALSE, sig |-> Exc("Exit")]

\* a go_back that returns to the bottom of the stack
GoBackToBottom(st, aw, rt) ==
    IF Len(st) <= 1
    THEN [stack |-> st, awaken |-> aw, rt |-> rt, awoke |-> None,
          sig |-> WindowClose.sig]
    ELSE GoTo(st, aw, rt, st[Len(st)], "none", FALSE, "ok")

\* _SceneManager.go_back
GoBack(st, aw, rt) ==
    IF Len(st) <= 1
    THEN [stack |-> st, awaken |-> aw, rt |-> rt, awoke |-> None,
          sig |-> WindowClose.sig]
    ELSE GoTo(st, aw, rt, st[2], "none", FALSE, "ok")

\* ------------------------------------------------------------- positions

\* inside the try of run(), lines 561-566: a hook of the active scene runs
FramePcs == {"events", "fixed", "alpha", "update", "render"}

\* a frame whose hooks are called in another order: the fixed updates come
\* after the interpolated update
FollowingAlphaFirst(p) ==
    CASE p = "events" -> "alpha"
      [] p = "alpha" -> "fixed"
      [] p = "fixed" -> "update"
      [] p = "update" -> "render"
      [] p = "render" -> "refresh"

\* the order of a frame: run() lines 562-566 call process_events(),
\* update_scene(), render_scene(), refresh(); update_scene (654-657) calls the
\* fixed updates, the interpolated update, then update()
Following(p) ==
    CASE p = "events" -> "fixed"
      [] p = "fixed" -> "alpha"
      [] p = "alpha" -> "update"
      [] p = "update" -> "render"
      [] p = "render" -> "refresh"

\* history: no frame in progress
NoFrame == [log |-> <<>>, acc |-> 0, hooks |-> <<>>]

\* history: the frame after one more call
Logged(call) == [frame EXCEPT !.log = Append(@, call)]

\* history: the transition in progress after one more call
Hooked(call) == [frame EXCEPT !.hooks = Append(@, call)]

\* history: the transition routine was advanced (one entry for a run of steps)
RoutineStep == <<"transition", "step">>
RoutineLogged ==
    IF frame.hooks # <<>> /\ frame.hooks[Len(frame.hooks)] = RoutineStep THEN frame
    ELSE Hooked(RoutineStep)

\* lines 620-622: the calls made on the previous scene
QuitLog(previous_scene, left) ==
    <<<<"on_quit", previous_scene>>>>
        \o (IF left THEN <<<<"destroy", previous_scene>>>> ELSE <<>>)

\* lines 624-627: the calls made on a closing scene
ClosingLog(scene) ==
    << <<"on_quit_before_transition", scene>>, <<"on_quit", scene>>,
       <<"destroy", scene>> >>

\* inside __scene_transition, called from the except clause, lines 567-574
TransitionPcs == {"t_quit_before", "t_start_before", "t_capture", "t_anim",
                  "t_step", "t_quit", "t_closing", "t_start", "t_end"}

\* positions at which a scene hook (user code) is about to be called
HookPcs == {"start_hooks", "events", "fixed", "alpha", "update", "render",
            "t_quit_before", "t_start_before", "t_capture", "t_quit",
            "t_closing", "t_start"}

\* a refresh() that adds all the time that has passed
Unclamped(elapsed) == elapsed

\* refresh(), line 635: min(real_delta_time / 1000, 2 * Time.fixed_delta())
Clamped(elapsed) == Min(elapsed, 2 * FixedDelta)

\* a loop that runs a tick only when more than one fixed delta is pending
TickDueStrictly(acc) == acc > FixedDelta

\* _fixed_updates_call, line 640: while self.__accumulator >= dt
TickDue(acc) == acc >= FixedDelta

\* the hook at pc is really called: fixed_update only while a tick is due,
\* the hooks of a closing scene only while one is left
HookCalled ==
    /\ pc \in HookPcs
    /\ sig.type = "none"
    /\ pc = "fixed" => TickDue(accumulator)
    /\ pc = "t_closing" => closing_i <= Len(req.closing)

Zero == [s \in Scenes |-> 0]

\* history: the returning transition each covered scene yielded with, after
\* the stack went from st to st2 in a go_to that registered transition t
YieldedAfter(st, st2, t) ==
    [s \in Scenes |->
        IF s \notin Range(st2) \/ s = Head(st2) THEN "none"
        ELSE IF st # <<>> /\ s = Head(st) THEN (IF IsReturning(t) THEN t ELSE "none")
        ELSE yielded_with[s]]

\* --------------------------------------------------------------- animation

\* Quantities are integers: angles in degrees, lengths and scales in multiples
\* of AlphaSteps, and an interpolation value alpha stands for alpha/AlphaSteps,
\* so that every blend of two snapshots is an integer too.
FullTurn == 360
HalfTurn == 180

Max(a, b) == IF a > b THEN a ELSE b

Grid(k) == k * AlphaSteps

\* the object as first built: not rotated, scale 1, centered on the origin
DefaultObject == [angle |-> 0, scale |-> Grid(1), center |-> <<Grid(0), Grid(0)>>]

NoState == [none |-> TRUE]

\* _TransformState.from_transformable (the opaque extra data is left out)
from_transformable(t) == [angle |-> t.angle, scale |-> t.scale, center |-> t.center]

\* Transformable._set_frozen_state / apply_rotation_scale: the object takes the
\* angle and the scale it is given
set_frozen_state(t, angle, scale) == [t EXCEPT !.angle = angle, !.scale = scale]

\* _TransformState.apply_on
apply_on(state, t) ==
    [set_frozen_state(t, state.angle, state.scale) EXCEPT !.center = state.center]

shortest_angle_unwrapped(start, end) == end - start

\* the local shortest_angle of _TransformState.angle_interpolation
shortest_angle(start, end) == (((end - start) + HalfTurn) % FullTurn) - HalfTurn

\* _TransformState.angle_interpolation
angle_interpolation(start, end, alpha) ==
    ((start * AlphaSteps + shortest_angle(start, end) * alpha) \div AlphaSteps) % FullTurn

linear_interpolation_swapped(start, end, alpha) ==
    (start * alpha + end * (AlphaSteps - alpha)) \div AlphaSteps

\* _TransformState.linear_interpolation
linear_interpolation(start, end, alpha) ==
    (start * (AlphaSteps - alpha) + end * alpha) \div AlphaSteps

\* Vector2.lerp, as self.center.lerp(other.center, alpha) uses it
lerp(a, b, alpha) ==
    <<a[1] + ((b[1] - a[1]) * alpha) \div AlphaSteps,
      a[2] + ((b[2] - a[2]) * alpha) \div AlphaSteps>>

\* _TransformState.interpolate
interpolate(self, other, alpha, t) ==
    [set_frozen_state(t, angle_interpolation(self.angle, other.angle, alpha),
                      linear_interpolation(self.scale, other.scale, alpha))
        EXCEPT !.center = lerp(self.center, other.center, alpha)]

\* ------------------------------------------------------------ the object

Abs(x) == IF x < 0 THEN -x ELSE x
Sign(x) == IF x < 0 THEN -1 ELSE IF x > 0 THEN 1 ELSE 0

\* Vector2.length and Vector2.scale_to_length, for vectors parallel to an axis
\* (one component is 0): the inputs below keep the object on the x axis
Length(v) == Abs(v[1]) + Abs(v[2])
ScaleToLength(v, length) == <<Sign(v[1]) * length, Sign(v[2]) * length>>

NoPivot == <<>>

\* the point c turned about the point p by a (whole quarter turns of a are
\* taken)
RotateAbout(c, p, a) ==
    LET k == (a % FullTurn) \div 90
        x == c[1] - p[1]
        y == c[2] - p[2]
    IN CASE k = 0 -> c
         [] k = 1 -> <<p[1] - y, p[2] + x>>
         [] k = 2 -> <<p[1] - x, p[2] - y>>
         [] OTHER -> <<p[1] + y, p[2] - x>>

\* Movable.translate
translate(t, vector) ==
    [t EXCEPT !.center = <<t.center[1] + vector[1], t.center[2] + vector[2]>>]

\* Movable.set_position(center=position)
set_position(t, position) == [t EXCEPT !.center = position]

\* Transformable.rotate(angle_offset, pivot)
rotate(t, offset, pivot) ==
    [t EXCEPT !.angle = (t.angle + offset) % FullTurn,
              !.center = IF pivot = NoPivot THEN @ ELSE RotateAbout(@, pivot, offset)]

\* Transformable.set_rotation(angle, pivot)
set_rotation(t, angle, pivot) ==
    [t EXCEPT !.angle = angle % FullTurn,
              !.center = IF pivot = NoPivot THEN @
                         ELSE RotateAbout(@, pivot, angle - t.angle)]

\* Transformable.rotate_around_point(angle_offset, pivot)
rotate_around_point(t, offset, pivot) ==
    [t EXCEPT !.center = RotateAbout(@, pivot, offset)]

\* Transformable.get_area_size(apply_rotation=False), on either field: the
\* object's own size is one unit, so its area is its scale
get_transformable_size(t) == t.scale

\* Transformable.scale_to_width / scale_to_height
set_transformable_size(t, value) == [t EXCEPT !.scale = value]

\* ------------------------------------------------------------ the tasks

\* the fields of every task class, with the values _AbstractAnimationClass.__init__
\* and the class's own __init__ give when the class does not use them
BaseTask(class, speed) ==
    [class |-> class, speed |-> speed, animation_started |-> TRUE,
     position |-> <<>>, vector |-> <<0, 0>>, traveled |-> 0,
     angle |-> 0, actual_angle |-> 0, orientation |-> 0, pivot |-> NoPivot,
     counter_clockwise |-> TRUE, rotate_object |-> FALSE,
     value |-> 0, actual_value |-> 0, field |-> "width"]

\* int(x // abs(x)) if x != 0 and speed > 0 else 0
Orientation(x, speed) == IF x # 0 /\ speed > 0 THEN Sign(x) ELSE 0

_AnimationSetPosition(speed, position) ==
    [BaseTask("_AnimationSetPosition", speed) EXCEPT !.position = position]

_AnimationMove(speed, translation) ==
    [BaseTask("_AnimationMove", speed) EXCEPT !.vector = translation]

_AnimationInfiniteMove(speed, direction) ==
    [BaseTask("_AnimationInfiniteMove", speed) EXCEPT
        !.vector = <<Sign(direction[1]), Sign(direction[2])>>]

_AnimationSetRotation(angle, speed, pivot, counter_clockwise) ==
    [BaseTask("_AnimationSetRotation", speed) EXCEPT
        !.angle = angle % FullTurn, !.pivot = pivot,
        !.counter_clockwise = counter_clockwise]

_AnimationRotation(angle, speed) ==
    [BaseTask("_AnimationRotation", speed) EXCEPT
        !.angle = Abs(angle), !.orientation = Orientation(angle, speed)]

_AnimationInfiniteRotate(speed, counter_clockwise) ==
    [BaseTask("_AnimationInfiniteRotate", speed) EXCEPT
        !.orientation = IF counter_clockwise THEN 1 ELSE -1]

_AnimationRotationAroundPoint(angle, speed, pivot, rotate_object) ==
    [BaseTask("_AnimationRotationAroundPoint", speed) EXCEPT
        !.angle = Abs(angle), !.orientation = Orientation(angle, speed),
        !.pivot = pivot, !.rotate_object = rotate_object]

_AnimationInfiniteRotateAroundPoint(speed, pivot, counter_clockwise, rotate_object) ==
    [BaseTask("_AnimationInfiniteRotateAroundPoint", speed) EXCEPT
        !.pivot = pivot, !.orientation = IF counter_clockwise THEN 1 ELSE -1,
        !.rotate_object = rotate_object]

_AnimationSetSize(value, speed, field) ==
    [BaseTask("_AnimationSetSize", speed) EXCEPT !.value = value, !.field = field]

_AnimationSizeGrowth(offset, speed, field) ==
    [BaseTask("_AnimationSizeGrowth", speed) EXCEPT
        !.value = Abs(offset), !.orientation = Orientation(offset, speed),
        !.field = field]

\* started() of the task's class
started(task) ==
    /\ task.animation_started
    /\ task.speed > 0
    /\ CASE task.class = "_AnimationSetPosition" -> task.position # <<>>
         [] task.class \in {"_AnimationMove", "_AnimationInfiniteMove"} ->
                task.vector # <<0, 0>>
         [] task.class \in {"_AnimationRotation", "_AnimationRotationAroundPoint"} ->
                task.angle # 0
         [] task.class = "_AnimationSizeGrowth" -> task.value # 0
         [] OTHER -> TRUE

\* a task and the object, as a task's method leaves them
Left(task, t) == [task |-> task, transformable |-> t]

\* default() of the task's class
default(task, t) ==
    CASE task.class = "_AnimationSetPosition" ->
            IF task.position # <<>>
            THEN Left([task EXCEPT !.position = <<>>], set_position(t, task.position))
            ELSE Left(task, t)
      [] task.class = "_AnimationMove" ->
            IF Length(task.vector) # 0
            THEN Left([task EXCEPT !.traveled = Length(task.vector),
                                   !.vector = <<0, 0>>], t)
            ELSE Left(task, t)
      [] task.class = "_AnimationInfiniteMove" ->
            Left([task EXCEPT !.vector = <<0, 0>>], t)
      [] task.class = "_AnimationSetRotation" ->
            Left(task, set_rotation(t, task.angle, task.pivot))
      [] task.class \in {"_AnimationRotation", "_AnimationRotationAroundPoint"} ->
            IF task.angle # 0
            THEN Left([task EXCEPT !.actual_angle = task.angle, !.angle = 0], t)
            ELSE Left(task, t)
      [] task.class = "_AnimationSetSize" ->
            Left(task, set_transformable_size(t, task.value))
      [] task.class = "_AnimationSizeGrowth" ->
            IF task.value # 0
            THEN Left([task EXCEPT !.actual_value = task.value, !.value = 0], t)
            ELSE Left(task, t)
      [] OTHER -> Left(task, t)

\* _AbstractAnimationClass.stop
stop(task, t) == default([task EXCEPT !.animation_started = FALSE, !.speed = 0], t)

OffsetUnclamped(remaining, speed) == speed

\* min(angle - actual_angle, speed) of the tasks that count their own progress
Offset(remaining, speed) == Min(remaining, speed)

\* fixed_update() of the task's class; task.speed is the step of one tick,
\* speed * Time.fixed_delta()
task_fixed_update(task, t) ==
    LET speed == task.speed IN
    CASE task.class = "_AnimationSetPosition" ->
            LET direction == <<task.position[1] - t.center[1],
                               task.position[2] - t.center[2]>>
                length == Length(direction)
            IN IF length > 0 /\ length > speed
               THEN Left(task, translate(t, ScaleToLength(direction, speed)))
               ELSE stop(task, t)
      [] task.class = "_AnimationMove" ->
            LET step == Offset(Length(task.vector) - task.traveled, speed) IN
            IF step = 0 THEN stop(task, t)
            ELSE Left([task EXCEPT !.traveled = @ + step],
                      translate(t, ScaleToLength(task.vector, step)))
      [] task.class = "_AnimationInfiniteMove" ->
            Left(task, translate(t, ScaleToLength(task.vector, speed)))
      [] task.class = "_AnimationSetRotation" ->
            LET turn == IF task.counter_clockwise THEN speed ELSE -speed
                signed == IF task.counter_clockwise THEN task.angle - t.angle
                          ELSE t.angle - task.angle
                remaining == IF signed < 0 THEN signed + FullTurn ELSE signed
            IN IF remaining > speed THEN Left(task, rotate(t, turn, task.pivot))
               ELSE stop(task, t)
      [] task.class = "_AnimationRotation" ->
            LET step == Offset(task.angle - task.actual_angle, speed) * task.orientation IN
            IF step = 0 THEN stop(task, t)
            ELSE Left([task EXCEPT !.actual_angle = @ + Abs(step)],
                      rotate(t, step, NoPivot))
      [] task.class = "_AnimationInfiniteRotate" ->
            Left(task, rotate(t, speed * task.orientation, NoPivot))
      [] task.class = "_AnimationRotationAroundPoint" ->
            LET step == Offset(task.angle - task.actual_angle, speed) * task.orientation IN
            IF step = 0 THEN stop(task, t)
            ELSE Left([task EXCEPT !.actual_angle = @ + Abs(step)],
                      IF task.rotate_object THEN rotate(t, step, task.pivot)
                      ELSE rotate_around_point(t, step, task.pivot))
      [] task.class = "_AnimationInfiniteRotateAroundPoint" ->
            LET turn == speed * task.orientation IN
            Left(task, IF task.rotate_object THEN rotate(t, turn, task.pivot)
                       ELSE rotate_around_point(t, turn, task.pivot))
      [] task.class = "_AnimationSetSize" ->
            LET actual_size == get_transformable_size(t)
                growth == IF actual_size > task.value THEN -speed ELSE speed
                remaining == Abs(task.value - actual_size)
            IN IF remaining > speed
               THEN Left(task, set_transformable_size(t, actual_size + growth))
               ELSE stop(task, t)
      [] OTHER ->
            \* _AnimationSizeGrowth
            LET step == Offset(task.value - task.actual_value, speed) * task.orientation IN
            IF step = 0 THEN stop(task, t)
            ELSE Left([task EXCEPT !.actual_value = @ + Abs(step)],
                      set_transformable_size(t, get_transformable_size(t) + step))

\* ---------------------------------------------------- the animation set

\* TransformAnimation.__animations is a dict: a sequence of entries in insertion
\* order, at most one per name
Slots == {"scale", "rotate", "rotate_point", "move"}

Names(d) == [i \in 1..Len(d) |-> d[i].name]
Has(d, name) == \E i \in 1..Len(d) : d[i].name = name
Get(d, name) == d[CHOOSE i \in 1..Len(d) : d[i].name = name].task

\* d.pop(name, None)
Pop(d, name) == SelectSeq(d, LAMBDA e : e.name # name)

SetAlone(d, name, task) == <<[name |-> name, task |-> task]>>

\* d[name] = task
Set(d, name, task) ==
    IF Has(d, name)
    THEN [i \in 1..Len(d) |-> IF d[i].name = name THEN [name |-> name, task |-> task]
                              ELSE d[i]]
    ELSE Append(d, [name |-> name, task |-> task])

\* TransformAnimation.has_animation_started
has_animation_started(d) == \E i \in 1..Len(d) : started(d[i].task)

\* TransformAnimation.started
animation_started(w, d) == ~w /\ has_animation_started(d)

\* TransformAnimation.__animations_order
AnimationsOrder == <<"scale", "rotate", "rotate_point", "move">>

IterAnimationsAsInserted(d) == Names(d)

\* TransformAnimation.__iter_animations: the names whose tasks it yields
IterAnimations(d) == SelectSeq(AnimationsOrder, LAMBDA name : Has(d, name))

\* the loop of TransformAnimation.fixed_update over the tasks of the given
\* names: the tasks and the object it leaves, and the names it went through
RECURSIVE RunAnimations(_, _, _)
RunAnimations(names, d, t) ==
    IF names = <<>> THEN [animations |-> d, transformable |-> t, applied |-> <<>>]
    ELSE LET task == Get(d, Head(names))
             r == IF started(task) THEN task_fixed_update(task, t) ELSE default(task, t)
             rest == RunAnimations(Tail(names), Set(d, Head(names), r.task),
                                   r.transformable)
         IN [rest EXCEPT !.applied = <<Head(names)>> \o @]

\* AnimationInterpolator.fixed_update on entry: the object the body starts from
RestoredState(state, t) == IF state # NoState THEN apply_on(state, t) ELSE t

PreviousOnEntryIsObject(state, t) == from_transformable(t)

\* AnimationInterpolator.fixed_update on entry: the previous snapshot
PreviousOnEntry(state, t) == IF state # NoState THEN state ELSE from_transformable(t)

\* the whole of TransformAnimation.fixed_update on a started set holding the
\* tasks d, the interpolator holding the snapshot state and the object being t
FixedTick(d, state, t) ==
    LET previous == PreviousOnEntry(state, t)
        restored == RestoredState(state, t)
        r == RunAnimations(IterAnimations(d), d, restored)
        finished == ~has_animation_started(r.animations)
    IN [previous |-> previous, restored |-> restored,
        actual |-> from_transformable(r.transformable),
        transformable |-> r.transformable, applied |-> r.applied,
        finished |-> finished,
        animations |-> IF finished THEN <<>> ELSE r.animations]

NoBlend == [applied |-> FALSE, alpha |-> 0, rendered |-> FALSE, reset |-> FALSE]
NoTick ==
    [done |-> FALSE, entry |-> DefaultObject, before |-> NoState,
     previous |-> NoState, restored |-> DefaultObject, actual |-> NoState,
     applied |-> <<>>, names |-> <<>>, finished |-> FALSE, chained |-> FALSE,
     nested |-> FALSE, raised |-> FALSE]
NoBuilt ==
    [fresh |-> FALSE, builder |-> "None", name |-> "None", pivot |-> NoPivot,
     rotate_object |-> FALSE, before |-> <<>>]
NoCalls == [builds |-> 0, ticks |-> 0, stopped |-> FALSE, given |-> <<>>]

\* TransformAnimation.__internal_init and AnimationInterpolator.__internal_init
AnimationInit ==
    /\ transformable = DefaultObject
    /\ previous_state = NoState
    /\ actual_state = NoState
    /\ animations = <<>>
    /\ wait = TRUE
    /\ shadow = [transformable |-> DefaultObject, animations |-> <<>>]
    /\ blend = NoBlend
    /\ tick = NoTick
    /\ built = NoBuilt
    /\ calls = NoCalls
    /\ on_stop = FALSE
    /\ fired = 0

\* --------------------------------------------------------------- actions

WindowInit ==
    /\ stack = <<>>
    /\ awaken = {}
    /\ returning_transitions = [s \in Scenes |-> "none"]
    /\ exit_callbacks = [s \in Scenes |-> FALSE]
    /\ running = FALSE
    /\ is_open = TRUE
    /\ accumulator = 0
    /\ pc = "idle"
    /\ sig = NoSig
    /\ req = NoSig
    /\ entered = {}
    /\ closing_i = 1
    /\ animating = FALSE
    /\ raised = "none"
    /\ navigations = 0
    /\ nav = NoNav
    /\ quit_calls = Zero
    /\ released_on_stack = {}
    /\ yielded_with = [s \in Scenes |-> "none"]
    /\ frame = NoFrame
    /\ looping = {}
    /\ callback_after = [s \in Scenes |-> FALSE]
    /\ callback_after_scenes = [s \in Scenes |-> "none"]

\* ---------------------------------------------------- scene instances

\* what a scene instance holds: the back-reference to its manager (set by
\* new_scene, line 763), the attributes Scene.__init__ makes (as it leaves
\* them, "fresh", or changed since; "none": deleted), and whether hooks added
\* attributes of their own
FreshFields == [manager |-> TRUE, own |-> "fresh", added |-> FALSE]

\* a destroy that deletes every attribute it listed
DeleteAttributesAll(f) == [manager |-> FALSE, own |-> "none", added |-> FALSE]

\* scene.py lines 790-792: every attribute listed is deleted, except the
\* back-reference to the manager
DeleteAttributes(f) == [manager |-> f.manager, own |-> "none", added |-> FALSE]

\* Scene.__init__: it raises TypeError on an instance without a manager
SceneInit(f) == IF f.manager THEN [f EXCEPT !.own = "fresh"] ELSE f

\* _SceneManager._destroy_awaken_scene, lines 784-793, on the attributes
DestroyFields(f, is_awaken) == IF is_awaken THEN SceneInit(DeleteAttributes(f)) ELSE f

\* _ALL_SCENES, line 75: the concrete kinds in the order of their definition
AllScenes == <<"A", "B", "C">>

\* no construction so far
NotConstructed == [done |-> FALSE]

\* constructions tried so far
Tries == IF constructed.done THEN constructed.tries ELSE 0

\* a window whose manager has constructed every kind
KindsInit ==
    /\ scene_instances = Scenes
    /\ all_scenes = Scenes
    /\ constructed = NotConstructed

\* Scene.__new__(cls), lines 204-210
SceneNew(reg, cls) ==
    IF cls \in reg THEN [raised |-> TRUE, instances |-> reg, kind |-> cls]
    ELSE [raised |-> FALSE, instances |-> reg \cup {cls}, kind |-> cls]

RECURSIVE NewScenes(_, _)
\* line 768: new_scene(cls) for cls in _ALL_SCENES, up to the first that raises
NewScenes(reg, classes) ==
    IF classes = <<>> THEN [raised |-> FALSE, instances |-> reg, kind |-> None]
    ELSE LET made == SceneNew(reg, Head(classes))
         IN  IF made.raised THEN made ELSE NewScenes(made.instances, Tail(classes))

\* what a hook that was not called has seen
NotCalled == [manager |-> FALSE, own |-> "not called", added |-> FALSE]

\* no destroy so far
NotDestroyed == [done |-> FALSE]

\* LayeredGroup.__init__ with no object
GroupInit ==
    /\ drawable_list = <<>>
    /\ layer_dict = <<>>

\* _SceneManager.__init__, lines 760-766: nothing is destroyed yet
InstancesInit ==
    /\ destroyed = NotDestroyed
    /\ KindsInit
    /\ GroupInit

\* the window with no scene started, and an object with its animation set just
\* constructed
Init ==
    /\ WindowInit
    /\ AnimationInit
    /\ InstancesInit

\* a navigation call made at pc with result res: the manager state it leaves,
\* the exception it raises, and the history
Navigate(res, op, scene, transition, remove_actual) ==
    LET called == res.awoke # None
        registered == called /\ res.sig.type = "NewScene"
    IN  /\ stack' = res.stack
        /\ awaken' = res.awaken
        /\ returning_transitions' = res.rt
        /\ sig' = res.sig
        /\ is_open' = IF res.sig.type = "Exit" THEN WindowClose.is_open ELSE is_open
        /\ exit_callbacks' = IF registered
                             THEN [exit_callbacks EXCEPT ![res.awoke] = TRUE]
                             ELSE exit_callbacks
        /\ quit_calls' = Zero
        /\ yielded_with' = YieldedAfter(stack, res.stack,
                                        IF registered THEN transition ELSE "none")
        /\ nav' = [op |-> op, scene |-> scene, transition |-> transition,
                   remove |-> remove_actual,
                   stack_before |-> stack, awaken_before |-> awaken,
                   rt_before |-> returning_transitions,
                   awoke |-> res.awoke,
                   yielded_before |-> yielded_with]

\* run(), lines 541-548: clear(), then go_to(default_scene)
Run(default_scene, awk) ==
    /\ pc = "idle"
    /\ ~running
    /\ running' = TRUE
    /\ accumulator' = 0
    /\ stack = <<>>          \* line 544: clear() has nothing to pop on a first run
    /\ Navigate(GoTo(stack, awaken, returning_transitions, default_scene, "none",
                     FALSE, awk),
                "run", default_scene, "none", FALSE)
    /\ pc' = "start"
    /\ UNCHANGED <<req, entered, closing_i, animating, raised, navigations, released_on_stack, frame, marks>>
    /\ UNCHANGED <<animation, instances>>

\* run(), line 549: the NewScene of the first go_to is caught
StartCatch ==
    /\ pc = "start"
    /\ sig.type = "NewScene"
    /\ sig' = NoSig
    /\ nav' = NoNav
    /\ pc' = "start_hooks"
    /\ UNCHANGED <<manager, exit_callbacks, running, is_open, accumulator, req, entered,
                   closing_i, animating, raised, navigations, quit_calls,
                   released_on_stack, yielded_with, frame, marks>>
    /\ UNCHANGED <<animation, instances>>

\* run(), lines 550-551: both start hooks of the default scene return
StartHooks ==
    /\ pc = "start_hooks"
    /\ sig.type = "none"
    /\ pc' = "loop"
    /\ looping' = OnStartLoop(looping, Head(stack))
    /\ UNCHANGED callbacks
    /\ UNCHANGED <<manager, exit_callbacks, running, is_open, accumulator, sig, req,
                   entered, closing_i, animating, raised, navigations, history>>
    /\ UNCHANGED <<animation, instances>>

\* run(), lines 547-551 are outside the try of line 559: anything else raised
\* there leaves run() without the finally clause
StartEscape ==
    /\ \/ pc = "start" /\ sig.type \notin {"none", "NewScene"}
       \/ pc = "start_hooks" /\ sig.type # "none"
    /\ raised' = sig.type
    /\ sig' = NoSig
    /\ nav' = NoNav
    /\ pc' = "done"
    /\ UNCHANGED <<manager, exit_callbacks, running, is_open, accumulator, req,
                   entered, closing_i, animating, navigations, quit_calls,
                   released_on_stack, yielded_with, frame, marks>>
    /\ UNCHANGED <<animation, instances>>

\* ---- what a hook can do instead of returning

\* scene.start(...) / window.start_scene(...): _SceneManager.go_to
CallGoTo(scene, transition, remove_actual, awk) ==
    /\ HookCalled
    /\ navigations < MaxCalls
    /\ navigations' = navigations + 1
    /\ Navigate(GoTo(stack, awaken, returning_transitions, scene, transition,
                     remove_actual, awk),
                "go_to", scene, transition, remove_actual)
    /\ UNCHANGED <<running, accumulator, pc, req, entered, closing_i, animating,
                   raised, released_on_stack, frame, marks>>
    /\ UNCHANGED <<animation, instances>>

\* scene.stop() / window.stop_actual_scene(): _SceneManager.go_back
CallGoBack ==
    /\ HookCalled
    /\ navigations < MaxCalls
    /\ navigations' = navigations + 1
    /\ Navigate(GoBack(stack, awaken, returning_transitions),
                "go_back", None, "none", FALSE)
    /\ UNCHANGED <<running, accumulator, pc, req, entered, closing_i, animating,
                   raised, released_on_stack, frame, marks>>
    /\ UNCHANGED <<animation, instances>>

\* Scene.every() / Scene.after(), lines 291-331, called by a hook of the active
\* scene in a frame: the scene's list enters the window's dictionary under the
\* scene and the callback is appended to it
CallEvery ==
    /\ HookCalled
    /\ pc \in FramePcs
    /\ ~callback_after[Head(stack)]
    /\ callback_after' = [callback_after EXCEPT ![Head(stack)] = TRUE]
    /\ callback_after_scenes' = [callback_after_scenes EXCEPT ![Head(stack)] = "list"]
    /\ UNCHANGED <<manager, exit_callbacks, running, is_open, accumulator, pc, sig, req,
                   entered, closing_i, animating, raised, navigations, history,
                   looping>>
    /\ UNCHANGED <<animation, instances>>

\* _process_callbacks, lines 682-684: the list the window's dictionary holds
\* for the active scene is processed
Processes(scenes, st) == st # <<>> /\ scenes[Head(st)] # "none"

\* the hook raises an exception of its own
HookRaises(type) ==
    /\ HookCalled
    /\ sig' = Exc(type)
    /\ nav' = [NoNav EXCEPT !.op = "raise"]
    /\ UNCHANGED <<manager, exit_callbacks, running, is_open, accumulator, pc, req,
                   entered, closing_i, animating, raised, navigations, quit_calls,
                   released_on_stack, yielded_with, frame, marks>>
    /\ UNCHANGED <<animation, instances>>

\* the hook calls window.close()
HookCloses ==
    /\ HookCalled
    /\ sig' = WindowClose.sig
    /\ is_open' = WindowClose.is_open
    /\ nav' = [NoNav EXCEPT !.op = "close"]
    /\ UNCHANGED <<manager, exit_callbacks, running, accumulator, pc, req, entered,
                   closing_i, animating, raised, navigations, quit_calls,
                   released_on_stack, yielded_with, frame, marks>>
    /\ UNCHANGED <<animation, instances>>

\* ---- one frame, lines 560-566 (every hook returns)

\* line 560: while is_open()
LoopHead ==
    /\ pc = "loop"
    /\ pc' = IF is_open THEN "events" ELSE "finally"
    /\ released_on_stack' = {}
    /\ frame' = NoFrame
    /\ UNCHANGED <<manager, exit_callbacks, running, is_open, accumulator, sig, req,
                   entered, closing_i, animating, raised, navigations, nav,
                   quit_calls, yielded_with, marks>>
    /\ UNCHANGED <<animation, instances>>

\* lines 562-563: process_events(); a close request that is polled makes the
\* window stop being open
ProcessEvents(close_request) ==
    /\ pc = "events"
    /\ sig.type = "none"
    /\ is_open' = (is_open /\ ~close_request)
    /\ pc' = Following("events")
    /\ frame' = [NoFrame EXCEPT !.log = <<"events">>, !.acc = accumulator]
    /\ UNCHANGED <<manager, exit_callbacks, running, accumulator, sig, req, entered,
                   closing_i, animating, raised, navigations, nav, quit_calls, released_on_stack, yielded_with, marks>>
    /\ UNCHANGED <<animation, instances>>

\* _fixed_updates_call, lines 640-643: one tick, scene.fixed_update() returns
FixedUpdate ==
    /\ pc = "fixed"
    /\ sig.type = "none"
    /\ TickDue(accumulator)
    /\ accumulator' = accumulator - FixedDelta
    /\ frame' = Logged("fixed_update")
    /\ UNCHANGED marks
    /\ UNCHANGED <<manager, exit_callbacks, running, is_open, pc, sig, req, entered,
                   closing_i, animating, raised, navigations, nav, quit_calls, released_on_stack, yielded_with>>
    /\ UNCHANGED <<animation, instances>>

\* _fixed_updates_call, line 640: no tick is due any more
FixedDone ==
    /\ pc = "fixed"
    /\ sig.type = "none"
    /\ ~TickDue(accumulator)
    /\ pc' = Following("fixed")
    /\ frame' = frame
    /\ UNCHANGED <<manager, exit_callbacks, running, is_open, accumulator, sig, req,
                   entered, closing_i, animating, raised, navigations, nav, quit_calls, released_on_stack, yielded_with, marks>>
    /\ UNCHANGED <<animation, instances>>

\* update_scene, line 656: scene.update_alpha(alpha) returns
UpdateAlpha ==
    /\ pc = "alpha"
    /\ sig.type = "none"
    /\ pc' = Following("alpha")
    /\ frame' = Logged("update_alpha")
    /\ UNCHANGED <<manager, exit_callbacks, running, is_open, accumulator, sig, req,
                   entered, closing_i, animating, raised, navigations, nav, quit_calls, released_on_stack, yielded_with, marks>>
    /\ UNCHANGED <<animation, instances>>

\* update_scene, line 657: scene.update() returns
Update ==
    /\ pc = "update"
    /\ sig.type = "none"
    /\ pc' = Following("update")
    /\ frame' = Logged("update")
    /\ UNCHANGED <<manager, exit_callbacks, running, is_open, accumulator, sig, req,
                   entered, closing_i, animating, raised, navigations, nav, quit_calls, released_on_stack, yielded_with, marks>>
    /\ UNCHANGED <<animation, instances>>

\* render_scene, lines 659-664: scene.render() returns
Render ==
    /\ pc = "render"
    /\ sig.type = "none"
    /\ pc' = Following("render")
    /\ frame' = Logged("render")
    /\ UNCHANGED <<manager, exit_callbacks, running, is_open, accumulator, sig, req,
                   entered, closing_i, animating, raised, navigations, nav, quit_calls, released_on_stack, yielded_with, marks>>
    /\ UNCHANGED <<animation, instances>>

\* SceneWindow.refresh, lines 633-636
Refresh(elapsed) ==
    /\ pc = "refresh"
    /\ accumulator' = accumulator + Clamped(elapsed)
    /\ pc' = "loop"
    /\ frame' = Logged("present")
    /\ UNCHANGED marks
    /\ UNCHANGED <<manager, exit_callbacks, running, is_open, sig, req, entered,
                   closing_i, animating, raised, navigations, nav, quit_calls, released_on_stack, yielded_with>>
    /\ UNCHANGED <<animation, instances>>

\* ---- the except clauses of run(), lines 567-577

\* line 567: except _SceneManager.NewScene
CatchesNewScene(type) == type = "NewScene"

\* a loop whose second except clause names SameScene only
CatchesOnlySameScene(type) == type = "SameScene"

\* line 575: except _SceneManager.SceneException (tried after line 567)
CatchesSceneException(type) == IsSceneException(type) /\ ~CatchesNewScene(type)

\* lines 567-573: the NewScene raised in a frame is caught; the exit stacks of
\* the closing scenes and of the previous scene are entered
CatchNewScene ==
    /\ pc \in FramePcs
    /\ CatchesNewScene(sig.type)
    /\ req' = sig
    /\ sig' = NoSig
    /\ entered' = Range(sig.closing) \cup {sig.previous}
    /\ closing_i' = 1
    /\ nav' = [NoNav EXCEPT !.op = nav.op, !.scene = nav.scene,
                             !.remove = nav.remove,
                             !.stack_before = nav.stack_before,
                             !.awaken_before = nav.awaken_before]
    /\ pc' = "t_quit_before"
    /\ frame' = NoFrame
    /\ UNCHANGED <<manager, exit_callbacks, running, is_open, accumulator, animating,
                   raised, navigations, quit_calls, released_on_stack,
                   yielded_with, marks>>
    /\ UNCHANGED <<animation, instances>>

\* lines 575-577: the exception is printed and the loop continues
CatchSceneException ==
    /\ pc \in FramePcs
    /\ CatchesSceneException(sig.type)
    /\ sig' = NoSig
    /\ nav' = NoNav
    /\ pc' = "loop"
    /\ frame' = NoFrame
    /\ UNCHANGED <<manager, exit_callbacks, running, is_open, accumulator, req,
                   entered, closing_i, animating, raised, navigations, quit_calls,
                   released_on_stack, yielded_with, marks>>
    /\ UNCHANGED <<animation, instances>>

\* no except clause of the frame matches: the exception reaches line 578
FrameUncaught ==
    /\ pc \in FramePcs
    /\ sig.type # "none"
    /\ ~CatchesNewScene(sig.type)
    /\ ~CatchesSceneException(sig.type)
    /\ nav' = NoNav
    /\ pc' = "finally"
    /\ frame' = NoFrame
    /\ UNCHANGED <<manager, exit_callbacks, running, is_open, accumulator, sig, req,
                   entered, closing_i, animating, raised, navigations, quit_calls,
                   released_on_stack, yielded_with, marks>>
    /\ UNCHANGED <<animation, instances>>

\* ---- __scene_transition, lines 582-631 (every hook returns)

\* line 591: previous_scene.on_quit_before_transition()
TQuitBefore ==
    /\ pc = "t_quit_before"
    /\ sig.type = "none"
    /\ pc' = "t_start_before"
    /\ frame' = Hooked(<<"on_quit_before_transition", req.previous>>)
    /\ UNCHANGED <<manager, exit_callbacks, running, is_open, accumulator, sig, req,
                   entered, closing_i, animating, raised, navigations, nav, quit_calls,
                   released_on_stack, yielded_with, marks>>
    /\ UNCHANGED <<animation, instances>>

\* lines 592-593: actual_scene.on_start_loop_before_transition()
TStartBefore ==
    /\ pc = "t_start_before"
    /\ sig.type = "none"
    /\ pc' = IF req.transition.routine # "none" THEN "t_capture" ELSE "t_quit"
    /\ frame' = Hooked(<<"on_start_loop_before_transition", req.actual>>)
    /\ UNCHANGED <<manager, exit_callbacks, running, is_open, accumulator, sig, req,
                   entered, closing_i, animating, raised, navigations, nav, quit_calls,
                   released_on_stack, yielded_with, marks>>
    /\ UNCHANGED <<animation, instances>>

\* lines 594-609: both scenes are rendered off screen, the routine is created
\* and advanced to its first yield (StopIteration: it has nothing to animate)
TCapture(stops) ==
    /\ pc = "t_capture"
    /\ sig.type = "none"
    /\ animating' = ~stops
    /\ pc' = "t_anim"
    /\ frame' = RoutineLogged
    /\ UNCHANGED <<manager, exit_callbacks, running, is_open, accumulator, sig, req,
                   entered, closing_i, raised, navigations, nav, quit_calls,
                   released_on_stack, yielded_with, marks>>
    /\ UNCHANGED <<animation, instances>>

\* the accumulator after _fixed_updates_call and _interpolation_updates_call
\* drove the routine, which raised StopIteration at send number stop_at
\* (0: it did not; a tick's decrement is skipped when its send raises)
AccumulatorAfterSends(acc, stop_at) ==
    LET due == acc \div FixedDelta
    IN  IF stop_at \in 1..due
        THEN acc - (stop_at - 1) * FixedDelta
        ELSE acc - due * FixedDelta

\* the fixed sends of _fixed_updates_call that returned, when the routine
\* raised StopIteration at send number stop_at (0: it did not)
SendsCompleted(acc, stop_at) ==
    LET due == acc \div FixedDelta
    IN  IF stop_at \in 1..due THEN stop_at - 1 ELSE due

\* a loop that goes on for as long as the routine has not finished
AnimationContinuesUntilDone(open, anim) == anim

\* line 610: while self.is_open() and animating
AnimationContinues(open, anim) == open /\ anim

\* lines 610-612: an iteration of the animation loop begins with
\* process_events(); a close request that is polled makes the window stop
\* being open
TAnimEvents(close_request) ==
    /\ pc = "t_anim"
    /\ sig.type = "none"
    /\ AnimationContinues(is_open, animating)
    /\ is_open' = (is_open /\ ~close_request)
    /\ pc' = "t_step"
    /\ UNCHANGED <<manager, exit_callbacks, running, accumulator, sig, req, entered,
                   closing_i, animating, raised, navigations, history, marks>>
    /\ UNCHANGED <<animation, instances>>

\* lines 611-612: the window's handling of a polled close request calls
\* close(), which does not return
TAnimCloses ==
    /\ pc = "t_anim"
    /\ sig.type = "none"
    /\ AnimationContinues(is_open, animating)
    /\ is_open' = WindowClose.is_open
    /\ sig' = WindowClose.sig
    /\ nav' = [NoNav EXCEPT !.op = "close"]
    /\ UNCHANGED <<manager, exit_callbacks, running, accumulator, pc, req, entered,
                   closing_i, animating, raised, navigations, quit_calls,
                   released_on_stack, yielded_with, frame, marks>>
    /\ UNCHANGED <<animation, instances>>

\* lines 613-618: the rest of the iteration: the routine is driven by the fixed
\* steps that are due and by one alpha step, then refresh()
TAnimate(stop_at, elapsed) ==
    /\ pc = "t_step"
    /\ sig.type = "none"
    /\ stop_at <= (accumulator \div FixedDelta) + 1
    /\ animating' = (stop_at = 0)
    /\ accumulator' = AccumulatorAfterSends(accumulator, stop_at)
                      + Clamped(elapsed)
    /\ pc' = "t_anim"
    /\ frame' = RoutineLogged
    /\ UNCHANGED marks
    /\ UNCHANGED <<manager, exit_callbacks, running, is_open, sig, req, entered,
                   closing_i, raised, navigations, nav, quit_calls, released_on_stack,
                   yielded_with>>
    /\ UNCHANGED <<animation, instances>>

\* lines 610 and 619: the animation loop is left, the routine is deleted
TAnimDone ==
    /\ pc = "t_anim"
    /\ sig.type = "none"
    /\ ~AnimationContinues(is_open, animating)
    /\ animating' = FALSE
    /\ req' = [req EXCEPT !.transition = NoRoutine]
    /\ pc' = "t_quit"
    /\ UNCHANGED <<manager, exit_callbacks, running, is_open, accumulator, sig,
                   entered, closing_i, raised, navigations, history, marks>>
    /\ UNCHANGED <<animation, instances>>

\* a transition that never destroys the previous scene
PreviousLeftStackNever(previous_scene, st) == FALSE

\* a transition that destroys the previous scene wherever it is
PreviousLeftStackAlways(previous_scene, st) == TRUE

\* line 621: not self.__scenes.started(previous_scene)
PreviousLeftStack(previous_scene, st) == previous_scene \notin Range(st)

\* lines 620-622: previous_scene.on_quit(), then its destroy if it left the stack
TQuit ==
    /\ pc = "t_quit"
    /\ sig.type = "none"
    /\ LET quitted == OnQuit(Life, req.previous)
       IN  SetLife(IF PreviousLeftStack(req.previous, stack)
                   THEN DestroyAwakenScene(quitted, req.previous)
                   ELSE quitted)
    /\ closing_i' = 1
    /\ pc' = "t_closing"
    /\ frame' = [frame EXCEPT !.hooks = @ \o QuitLog(req.previous,
                                          PreviousLeftStack(req.previous, stack))]
    /\ UNCHANGED <<returning_transitions, running, is_open, accumulator, sig, req,
                   animating, raised, navigations, nav, yielded_with>>
    /\ UNCHANGED <<animation, instances>>

\* lines 623-627: the quit hooks and the destroy of one closing scene
TClosing ==
    /\ pc = "t_closing"
    /\ sig.type = "none"
    /\ closing_i <= Len(req.closing)
    /\ SetLife(DestroyAwakenScene(OnQuit(Life, req.closing[closing_i]),
                                  req.closing[closing_i]))
    /\ closing_i' = closing_i + 1
    /\ frame' = [frame EXCEPT !.hooks = @ \o ClosingLog(req.closing[closing_i])]
    /\ UNCHANGED <<returning_transitions, running, is_open, accumulator, pc, sig, req,
                   animating, raised, navigations, nav, yielded_with>>
    /\ UNCHANGED <<animation, instances>>

\* line 623: no closing scene is left
TClosingDone ==
    /\ pc = "t_closing"
    /\ sig.type = "none"
    /\ closing_i > Len(req.closing)
    /\ pc' = "t_start"
    /\ UNCHANGED <<manager, exit_callbacks, running, is_open, accumulator, sig, req,
                   entered, closing_i, animating, raised, navigations, history, marks>>
    /\ UNCHANGED <<animation, instances>>

\* line 628: self.__callback_after_scenes.pop(previous_scene, None)
PopCallbacks(scenes, previous_scene) == [scenes EXCEPT ![previous_scene] = "none"]

\* lines 628-631: the previous scene's callbacks leave the window's dictionary,
\* the accumulator is reset, actual_scene.on_start_loop()
TStart ==
    /\ pc = "t_start"
    /\ sig.type = "none"
    /\ accumulator' = 0
    /\ pc' = "t_end"
    /\ frame' = Hooked(<<"on_start_loop", req.actual>>)
    /\ looping' = OnStartLoop(looping, req.actual)
    /\ callback_after_scenes' = PopCallbacks(callback_after_scenes, req.previous)
    /\ UNCHANGED callback_after
    /\ UNCHANGED <<manager, exit_callbacks, running, is_open, sig, req, entered,
                   closing_i, animating, raised, navigations, nav, quit_calls,
                   released_on_stack, yielded_with>>
    /\ UNCHANGED <<animation, instances>>

\* line 574, the with block is left normally: all_scenes_stack closes the exit
\* stacks it entered
TEnd ==
    /\ pc = "t_end"
    /\ sig.type = "none"
    /\ SetLife([CloseExitStacks(Life, entered)
                  EXCEPT !.entered = {}, !.quit_calls = Zero])
    /\ req' = NoSig
    /\ nav' = NoNav
    /\ closing_i' = 1
    /\ pc' = "loop"
    /\ frame' = NoFrame
    /\ UNCHANGED <<returning_transitions, running, is_open, accumulator, sig,
                   animating, raised, navigations, yielded_with>>
    /\ UNCHANGED <<animation, instances>>

\* an exception raised while __scene_transition runs is raised inside the
\* except clause of line 567: no clause of that try catches it.  It leaves the
\* with of line 624 (in the closing loop) and the with of line 570, whose exit
\* stacks are closed, and reaches line 578.
TransitionRaises ==
    /\ pc \in TransitionPcs
    /\ sig.type # "none"
    /\ LET inner == IF pc = "t_closing"
                    THEN CloseExitStack(Life, req.closing[closing_i])
                    ELSE Life
       IN  SetLife([CloseExitStacks(inner, entered) EXCEPT !.entered = {}])
    /\ req' = NoSig
    /\ closing_i' = 1
    /\ animating' = FALSE
    /\ nav' = NoNav
    /\ pc' = "finally"
    /\ frame' = NoFrame
    /\ UNCHANGED <<returning_transitions, running, is_open, accumulator, sig, raised,
                   navigations, yielded_with>>
    /\ UNCHANGED <<animation, instances>>

\* lines 578-580: finally: clear(), running = False; run() returns or re-raises
Finally ==
    /\ pc = "finally"
    /\ SetLife([ClearLife(Life) EXCEPT !.entered = {}])
    /\ running' = FALSE
    /\ raised' = sig.type
    /\ sig' = NoSig
    /\ nav' = NoNav
    /\ yielded_with' = [s \in Scenes |-> "none"]
    /\ pc' = "done"
    /\ UNCHANGED <<returning_transitions, is_open, accumulator, req, closing_i,
                   animating, navigations, frame>>
    /\ UNCHANGED <<animation, instances>>

\* ------------------------------------------------------------ specification

\* ----------------------------------------------------- animation actions

reset_kept(state) == state

\* AnimationInterpolator.reset: what it makes of a snapshot
reset(state) == NoState

\* AnimationInterpolator.update(interpolation)
InterpolatorUpdate(interpolation) ==
    /\ LET alpha == Min(Max(interpolation, 0), AlphaSteps) IN
       IF previous_state = NoState \/ actual_state = NoState
       THEN /\ UNCHANGED transformable
            /\ blend' = [blend EXCEPT !.applied = FALSE, !.alpha = alpha]
       ELSE /\ transformable' = interpolate(previous_state, actual_state, alpha,
                                            transformable)
            /\ blend' = [blend EXCEPT !.applied = TRUE, !.alpha = alpha,
                                       !.rendered = TRUE]
    /\ UNCHANGED <<window, instances, previous_state, actual_state, animations, wait, shadow,
                   tick, built, calls, on_stop, fired>>

\* a builder call: made is what the builder makes of the dict of tasks (and
\* shadow_made of the shadow's), name the slot of its kind
Builds(builder, name, pivot, rotate_object, made, shadow_made) ==
    /\ animations' = made
    /\ shadow' = [shadow EXCEPT !.animations = shadow_made]
    /\ built' = [fresh |-> TRUE, builder |-> builder, name |-> name, pivot |-> pivot,
                 rotate_object |-> rotate_object, before |-> animations]
    /\ calls' = [calls EXCEPT !.builds = @ + 1]
    /\ UNCHANGED <<window, instances, transformable, previous_state, actual_state, wait, blend,
                   tick, on_stop, fired>>

\* the values the builders are called with: steps of one tick, targets, and a
\* pivot on the x axis
LengthStep == Grid(1)
AngleStep == 90
Pivot == <<Grid(1), Grid(0)>>

\* TransformAnimation.smooth_set_position
SmoothSetPosition ==
    /\ calls.builds < MaxBuilds
    /\ LET build(d) == Set(d, "move",
                          _AnimationSetPosition(LengthStep, <<Grid(2), Grid(0)>>))
       IN Builds("smooth_set_position", "move", NoPivot, FALSE,
                 build(animations), build(shadow.animations))

\* TransformAnimation.smooth_translation
SmoothTranslation(translation) ==
    /\ calls.builds < MaxBuilds
    /\ LET build(d) == Set(d, "move", _AnimationMove(LengthStep, translation))
       IN Builds("smooth_translation", "move", NoPivot, FALSE,
                 build(animations), build(shadow.animations))

\* TransformAnimation.infinite_translation
InfiniteTranslation ==
    /\ calls.builds < MaxBuilds
    /\ LET build(d) == Set(d, "move",
                          _AnimationInfiniteMove(LengthStep, <<Grid(1), Grid(0)>>))
       IN Builds("infinite_translation", "move", NoPivot, FALSE,
                 build(animations), build(shadow.animations))

\* TransformAnimation.smooth_set_angle; about a pivot the object is turned by
\* half turns, which keep it on the x axis
SmoothSetAngle(pivot, counter_clockwise) ==
    /\ calls.builds < MaxBuilds
    /\ LET build(d) == Set(IF pivot # NoPivot THEN Pop(d, "rotate_point") ELSE d,
                          "rotate",
                          _AnimationSetRotation(
                              HalfTurn,
                              IF pivot = NoPivot THEN AngleStep ELSE HalfTurn,
                              pivot, counter_clockwise))
       IN Builds("smooth_set_angle", "rotate", pivot, FALSE,
                 build(animations), build(shadow.animations))

\* TransformAnimation.smooth_rotation
SmoothRotation(angle) ==
    /\ calls.builds < MaxBuilds
    /\ LET build(d) == Set(d, "rotate", _AnimationRotation(angle, AngleStep))
       IN Builds("smooth_rotation", "rotate", NoPivot, FALSE,
                 build(animations), build(shadow.animations))

\* TransformAnimation.smooth_rotation_around_point
SmoothRotationAroundPoint(rotate_object) ==
    /\ calls.builds < MaxBuilds
    /\ LET build(d) == Set(IF rotate_object THEN Pop(d, "rotate") ELSE d,
                          "rotate_point",
                          _AnimationRotationAroundPoint(HalfTurn, HalfTurn, Pivot,
                                                        rotate_object))
       IN Builds("smooth_rotation_around_point", "rotate_point", Pivot, rotate_object,
                 build(animations), build(shadow.animations))

\* TransformAnimation.infinite_rotation
InfiniteRotation(counter_clockwise) ==
    /\ calls.builds < MaxBuilds
    /\ LET build(d) == Set(d, "rotate",
                          _AnimationInfiniteRotate(AngleStep, counter_clockwise))
       IN Builds("infinite_rotation", "rotate", NoPivot, FALSE,
                 build(animations), build(shadow.animations))

\* TransformAnimation.infinite_rotation_around_point
InfiniteRotationAroundPoint(rotate_object) ==
    /\ calls.builds < MaxBuilds
    /\ LET build(d) == Set(IF rotate_object THEN Pop(d, "rotate") ELSE d,
                          "rotate_point",
                          _AnimationInfiniteRotateAroundPoint(HalfTurn, Pivot, TRUE,
                                                              rotate_object))
       IN Builds("infinite_rotation_around_point", "rotate_point", Pivot, rotate_object,
                 build(animations), build(shadow.animations))

\* TransformAnimation.smooth_scale_to_width
SmoothScaleToWidth ==
    /\ calls.builds < MaxBuilds
    /\ LET build(d) == Set(d, "scale", _AnimationSetSize(Grid(3), LengthStep, "width"))
       IN Builds("smooth_scale_to_width", "scale", NoPivot, FALSE,
                 build(animations), build(shadow.animations))

\* TransformAnimation.smooth_scale_to_height
SmoothScaleToHeight ==
    /\ calls.builds < MaxBuilds
    /\ LET build(d) == Set(d, "scale", _AnimationSetSize(Grid(2), LengthStep, "height"))
       IN Builds("smooth_scale_to_height", "scale", NoPivot, FALSE,
                 build(animations), build(shadow.animations))

\* TransformAnimation.smooth_width_growth
SmoothWidthGrowth ==
    /\ calls.builds < MaxBuilds
    /\ LET build(d) == Set(d, "scale",
                          _AnimationSizeGrowth(Grid(2), LengthStep, "width"))
       IN Builds("smooth_width_growth", "scale", NoPivot, FALSE,
                 build(animations), build(shadow.animations))

\* TransformAnimation.smooth_height_growth
SmoothHeightGrowth ==
    /\ calls.builds < MaxBuilds
    /\ LET build(d) == Set(d, "scale",
                          _AnimationSizeGrowth(Grid(1), LengthStep, "height"))
       IN Builds("smooth_height_growth", "scale", NoPivot, FALSE,
                 build(animations), build(shadow.animations))

\* TransformAnimation.start
AnimationStart ==
    /\ wait
    /\ wait' = FALSE
    /\ UNCHANGED <<window, instances, transformable, previous_state, actual_state, animations,
                   shadow, blend, tick, built, calls, on_stop, fired>>

\* TransformAnimation.pause
AnimationPause ==
    /\ ~wait
    /\ wait' = TRUE
    /\ UNCHANGED <<window, instances, transformable, previous_state, actual_state, animations,
                   shadow, blend, tick, built, calls, on_stop, fired>>

\* TransformAnimation.clear(pause=pause)
AnimationClear(pause) ==
    /\ animations # <<>>
    /\ wait' = (wait \/ pause)
    /\ animations' = <<>>
    /\ previous_state' = reset(previous_state)
    /\ actual_state' = reset(actual_state)
    /\ shadow' = [shadow EXCEPT !.animations = <<>>]
    /\ blend' = [NoBlend EXCEPT !.rendered = blend.rendered, !.reset = TRUE]
    /\ built' = NoBuilt
    /\ UNCHANGED <<window, instances, transformable, tick, calls, on_stop, fired>>

\* lines 262-264: on_stop(), then self.__on_stop = None; chains: the callback
\* called self.on_stop(follow_up) while it ran
OnStopAfterCallback(chains) == FALSE

\* TransformAnimation.fixed_update, on a started set; chains: the callback held,
\* if it is called, registers a follow-up callback with on_stop()
AnimationFixedUpdate(chains) ==
    /\ animation_started(wait, animations)
    /\ calls.ticks < MaxTicks
    /\ LET r == FixedTick(animations, actual_state, transformable)
           sr == FixedTick(shadow.animations, NoState, shadow.transformable)
       IN /\ transformable' = r.transformable
          /\ previous_state' = IF r.finished THEN NoState ELSE r.previous
          /\ actual_state' = IF r.finished THEN NoState ELSE r.actual
          /\ animations' = r.animations
          /\ wait' = r.finished
          /\ shadow' = [transformable |-> sr.transformable, animations |-> sr.animations]
          /\ tick' = [done |-> TRUE, entry |-> transformable, before |-> actual_state,
                      previous |-> r.previous, restored |-> r.restored,
                      actual |-> r.actual, applied |-> r.applied,
                      names |-> Names(animations), finished |-> r.finished,
                      chained |-> r.finished /\ on_stop /\ chains,
                      nested |-> FALSE, raised |-> FALSE]
          /\ blend' = [NoBlend EXCEPT !.reset = r.finished]
          /\ on_stop' = IF r.finished /\ on_stop THEN OnStopAfterCallback(chains)
                        ELSE on_stop
          /\ fired' = IF r.finished /\ on_stop THEN fired + 1 ELSE fired
    /\ built' = NoBuilt
    /\ calls' = [calls EXCEPT !.ticks = @ + 1]
    /\ UNCHANGED <<window, instances>>

\* AnimationInterpolator.reset, its first two lines: RuntimeError while a
\* fixed_update context of the interpolator is open
ResetRaises(state_update) == state_update

\* with pool.fixed_update(): animation.fixed_update(), for a pool that holds
\* the animated object, on a started set.  The pool's context is the one that
\* takes the snapshots (state_update is set), the context of the set's own
\* fixed_update yields at once; on the tick that finishes the set, clear()
\* empties the tasks and its reset() raises, which skips the snapshot after
\* the yield of the pool's context and the rest of fixed_update
PoolFixedUpdate ==
    /\ animation_started(wait, animations)
    /\ calls.ticks < MaxTicks
    /\ \E r \in {FixedTick(animations, actual_state, transformable)},
          sr \in {FixedTick(shadow.animations, NoState, shadow.transformable)} :
          \E raises \in {r.finished /\ ResetRaises(TRUE)} :
             /\ transformable' = r.transformable
             /\ previous_state' = IF r.finished /\ ~raises THEN NoState ELSE r.previous
             /\ actual_state' = IF raises THEN actual_state
                                ELSE IF r.finished THEN NoState ELSE r.actual
             /\ animations' = r.animations
             /\ wait' = IF raises THEN wait ELSE r.finished
             /\ shadow' = [transformable |-> sr.transformable,
                           animations |-> sr.animations]
             /\ tick' = [done |-> TRUE, entry |-> transformable, before |-> actual_state,
                         previous |-> r.previous, restored |-> r.restored,
                         actual |-> r.actual, applied |-> r.applied,
                         names |-> Names(animations), finished |-> r.finished,
                         chained |-> FALSE, nested |-> TRUE, raised |-> raises]
             /\ blend' = [NoBlend EXCEPT !.reset = r.finished /\ ~raises]
             /\ on_stop' = IF r.finished /\ ~raises /\ on_stop
                           THEN OnStopAfterCallback(FALSE) ELSE on_stop
             /\ fired' = IF r.finished /\ ~raises /\ on_stop THEN fired + 1 ELSE fired
    /\ built' = NoBuilt
    /\ calls' = [calls EXCEPT !.ticks = @ + 1]
    /\ UNCHANGED <<window, instances>>

\* TransformAnimation.update(interpolation), on a started set
AnimationUpdate(interpolation) ==
    /\ animation_started(wait, animations)
    /\ InterpolatorUpdate(interpolation)

\* AnimationInterpolator.reset
InterpolatorReset ==
    /\ previous_state' = reset(previous_state)
    /\ actual_state' = reset(actual_state)
    /\ blend' = [NoBlend EXCEPT !.rendered = blend.rendered, !.reset = TRUE]
    /\ UNCHANGED <<window, instances, transformable, animations, wait, shadow, tick, built,
                   calls, on_stop, fired>>

\* the object is in a state whose blends with another such state are exact:
\* quarter turns, lengths on the grid
OnGrid(t) ==
    /\ t.angle % AngleStep = 0
    /\ t.scale % AlphaSteps = 0
    /\ t.center[1] % AlphaSteps = 0
    /\ t.center[2] % AlphaSteps = 0

\* with AnimationInterpolator.fixed_update(): a body that leaves the object in
\* the state body; the snapshots taken are kept on the grid
InterpolatorFixedUpdate(body) ==
    /\ actual_state # NoState \/ OnGrid(transformable)
    /\ previous_state' = PreviousOnEntry(actual_state, transformable)
    /\ transformable' = apply_on(body, RestoredState(actual_state, transformable))
    /\ actual_state' = from_transformable(transformable')
    /\ blend' = NoBlend
    /\ UNCHANGED <<window, instances, animations, wait, shadow, tick, built, calls, on_stop,
                   fired>>

\* TransformAnimation.fixed_update on a set that is not started: it returns
AnimationFixedUpdateReturns ==
    /\ ~animation_started(wait, animations)
    /\ calls.ticks < MaxTicks
    /\ calls' = [calls EXCEPT !.ticks = @ + 1]
    /\ UNCHANGED <<window, instances, transformable, previous_state, actual_state, animations,
                   wait, shadow, blend, tick, built, on_stop, fired>>

\* TransformAnimation.on_stop(callback); callback FALSE is None
AnimationOnStop(callback) ==
    /\ on_stop # callback
    /\ on_stop' = callback
    /\ tick' = [tick EXCEPT !.chained = FALSE]
    /\ UNCHANGED <<window, instances, transformable, previous_state, actual_state, animations,
                   wait, shadow, blend, built, calls, fired>>

\* the elapsed times refresh() reports in a run of the window: none, or the
\* largest (FrameSpec draws every value in between)
Elapsed == {0, MaxElapsed}

\* _AbstractAnimationClass.stop() of the task held in the slot name, called
\* between two ticks
TaskStop(name) ==
    /\ Has(animations, name)
    /\ LET r == stop(Get(animations, name), transformable)
       IN /\ animations' = Set(animations, name, r.task)
          /\ transformable' = r.transformable
    /\ calls' = [calls EXCEPT !.stopped = TRUE]
    /\ UNCHANGED <<window, instances, previous_state, actual_state, wait, shadow, blend, tick,
                   built, on_stop, fired>>

Next ==
    \/ \E s \in DefaultScenes, awk \in AwakeOutcomes : Run(s, awk)
    \/ StartCatch
    \/ StartHooks
    \/ StartEscape
    \/ \E s \in Scenes, t \in Transitions, rm \in BOOLEAN, awk \in AwakeOutcomes :
          CallGoTo(s, t, rm, awk)
    \/ CallGoBack
    \/ \E type \in {"Exception", "SceneException"} : HookRaises(type)
    \/ HookCloses
    \/ LoopHead
    \/ \E close_request \in BOOLEAN : ProcessEvents(close_request)
    \/ FixedUpdate
    \/ FixedDone
    \/ UpdateAlpha
    \/ Update
    \/ Render
    \/ \E elapsed \in Elapsed : Refresh(elapsed)
    \/ CatchNewScene
    \/ CatchSceneException
    \/ FrameUncaught
    \/ TQuitBefore
    \/ TStartBefore
    \/ \E stops \in BOOLEAN : TCapture(stops)
    \/ \E close_request \in BOOLEAN : TAnimEvents(close_request)
    \/ TAnimCloses
    \/ \E stop_at \in 0..(3 * FixedDelta + 1), elapsed \in Elapsed :
          TAnimate(stop_at, elapsed)
    \/ TAnimDone
    \/ TQuit
    \/ TClosing
    \/ TClosingDone
    \/ TStart
    \/ TEnd
    \/ TransitionRaises
    \/ Finally

Spec == Init /\ [][Next]_vars

\* run() with scenes whose hooks never navigate (they return, raise or close
\* the window): the frames alone, with refresh() reporting up to
\* MaxFrameElapsed
FrameNext ==
    \/ \E s \in DefaultScenes : Run(s, "ok")
    \/ StartCatch
    \/ StartHooks
    \/ StartEscape
    \/ \E type \in {"SceneException", "Exception"} : HookRaises(type)
    \/ HookCloses
    \/ LoopHead
    \/ \E close_request \in BOOLEAN : ProcessEvents(close_request)
    \/ FixedUpdate
    \/ FixedDone
    \/ UpdateAlpha
    \/ Update
    \/ Render
    \/ \E elapsed \in 0..MaxFrameElapsed : Refresh(elapsed)
    \/ CatchSceneException
    \/ FrameUncaught
    \/ Finally

FrameSpec == Init /\ [][FrameNext]_vars

\* run() with scenes that start scene B, with or without a transition routine,
\* and refresh() reporting up to MaxFrameElapsed, in the frames and in the
\* animation loop of the transition
StallNext ==
    \/ \E s \in DefaultScenes : Run(s, "ok")
    \/ StartCatch
    \/ StartHooks
    \/ \E t \in {"none", "plain"} : CallGoTo("B", t, FALSE, "ok")
    \/ \E type \in {"SceneException"} : HookRaises(type)
    \/ LoopHead
    \/ \E close_request \in BOOLEAN : ProcessEvents(close_request)
    \/ FixedUpdate
    \/ FixedDone
    \/ UpdateAlpha
    \/ Update
    \/ Render
    \/ \E elapsed \in 0..MaxFrameElapsed : Refresh(elapsed)
    \/ CatchNewScene
    \/ CatchSceneException
    \/ TQuitBefore
    \/ TStartBefore
    \/ \E stops \in BOOLEAN : TCapture(stops)
    \/ \E close_request \in BOOLEAN : TAnimEvents(close_request)
    \/ \E stop_at \in 0..(3 * FixedDelta + 1), elapsed \in 0..MaxFrameElapsed :
          TAnimate(stop_at, elapsed)
    \/ TAnimDone
    \/ TQuit
    \/ TClosingDone
    \/ TStart
    \/ TEnd
    \/ TransitionRaises
    \/ Finally

StallSpec == Init /\ [][StallNext]_vars

\* run() with scenes that register callbacks with every() and cover one
\* another: a scene started with stop_self=False, and stop()
CallbackNext ==
    \/ \E s \in DefaultScenes : Run(s, "ok")
    \/ StartCatch
    \/ StartHooks
    \/ CallEvery
    \/ \E s \in Scenes : CallGoTo(s, "none", FALSE, "ok")
    \/ CallGoBack
    \/ LoopHead
    \/ \E close_request \in BOOLEAN : ProcessEvents(close_request)
    \/ FixedUpdate
    \/ FixedDone
    \/ UpdateAlpha
    \/ Update
    \/ Render
    \/ \E elapsed \in Elapsed : Refresh(elapsed)
    \/ CatchNewScene
    \/ CatchSceneException
    \/ FrameUncaught
    \/ TQuitBefore
    \/ TStartBefore
    \/ TQuit
    \/ TClosing
    \/ TClosingDone
    \/ TStart
    \/ TEnd
    \/ TransitionRaises
    \/ Finally

CallbackSpec == Init /\ [][CallbackNext]_vars

\* an object and its animation set: every builder, start, pause and clear in
\* any order, and fixed ticks
AnimationNext ==
    \/ SmoothSetPosition
    \/ \E translation \in {<<Grid(2), Grid(0)>>, <<-Grid(1), Grid(0)>>} :
           SmoothTranslation(translation)
    \/ InfiniteTranslation
    \/ \E pivot \in {NoPivot, Pivot}, counter_clockwise \in BOOLEAN :
           SmoothSetAngle(pivot, counter_clockwise)
    \/ \E angle \in {HalfTurn, -AngleStep} : SmoothRotation(angle)
    \/ \E rotate_object \in BOOLEAN : SmoothRotationAroundPoint(rotate_object)
    \/ \E counter_clockwise \in BOOLEAN : InfiniteRotation(counter_clockwise)
    \/ \E rotate_object \in BOOLEAN : InfiniteRotationAroundPoint(rotate_object)
    \/ SmoothScaleToWidth
    \/ SmoothScaleToHeight
    \/ SmoothWidthGrowth
    \/ SmoothHeightGrowth
    \/ AnimationStart
    \/ AnimationPause
    \/ \E pause \in BOOLEAN : AnimationClear(pause)
    \/ AnimationFixedUpdate(FALSE)

AnimationSpec == Init /\ [][AnimationNext]_vars

\* an animated object that is rendered: fixed ticks and interpolated updates
\* interleaved in any way (any number of ticks between two updates, any number
\* of updates with any values between two ticks), with tasks of the move, rotate
\* and scale kinds set, started, paused and cleared in any order
RenderNext ==
    \/ SmoothSetPosition
    \/ \E translation \in {<<Grid(2), Grid(0)>>, <<-Grid(1), Grid(0)>>} :
           SmoothTranslation(translation)
    \/ \E angle \in {HalfTurn, -AngleStep} : SmoothRotation(angle)
    \/ SmoothScaleToWidth
    \/ AnimationStart
    \/ AnimationPause
    \/ \E pause \in BOOLEAN : AnimationClear(pause)
    \/ AnimationFixedUpdate(FALSE)
    \/ \E interpolation \in -1..(AlphaSteps + 1) : AnimationUpdate(interpolation)

RenderSpec == Init /\ [][RenderNext]_vars

\* the interpolator alone: any pair of snapshots a fixed update can have left
\* (or none yet), interpolated updates with any value, out of range too, resets
\* and fixed updates
SnapshotAngles == {-90, 0, 90, 180, 270, 360}
Snapshots ==
    [angle : SnapshotAngles, scale : {Grid(1), Grid(2)},
     center : {<<Grid(0), Grid(0)>>, <<Grid(1), Grid(0)>>, <<Grid(0), Grid(2)>>}]

InterpolationInit ==
    /\ WindowInit
    /\ InstancesInit
    /\ transformable = DefaultObject
    /\ \/ previous_state = NoState /\ actual_state = NoState
       \/ previous_state \in Snapshots /\ actual_state \in Snapshots
    /\ animations = <<>>
    /\ wait = TRUE
    /\ shadow = [transformable |-> DefaultObject, animations |-> <<>>]
    /\ blend = NoBlend
    /\ tick = NoTick
    /\ built = NoBuilt
    /\ calls = NoCalls
    /\ on_stop = FALSE
    /\ fired = 0

\* the states the body of a fixed update leaves the object in
Bodies ==
    {[angle |-> 90, scale |-> Grid(1), center |-> <<Grid(1), Grid(0)>>],
     [angle |-> 0, scale |-> Grid(2), center |-> <<Grid(0), Grid(2)>>]}

InterpolationNext ==
    \/ \E interpolation \in -1..(AlphaSteps + 1) : InterpolatorUpdate(interpolation)
    \/ InterpolatorReset
    \/ \E body \in Bodies : InterpolatorFixedUpdate(body)

InterpolationSpec == InterpolationInit /\ [][InterpolationNext]_vars

\* the tasks alone: a set that holds one task, or two of different kinds, of
\* any class and with any speed (negative, zero, a step that divides the way
\* to the target and one that does not), and that start() has started; fixed
\* ticks, a callback registered or removed, and a task stopped at any point
LengthSpeeds == {0 - LengthStep, 0, LengthStep, LengthStep + 1}
AngleSpeeds == {0 - AngleStep, 0, AngleStep, AngleStep + AngleStep \div 2}
PivotSpeeds == {0, HalfTurn}
Entry(name, task) == [name |-> name, task |-> task]
MoveEntries ==
    {Entry("move", _AnimationSetPosition(speed, <<Grid(2), Grid(0)>>)) :
        speed \in LengthSpeeds}
    \cup {Entry("move", _AnimationMove(speed, translation)) :
            speed \in LengthSpeeds,
            translation \in {<<Grid(2), Grid(0)>>, <<-Grid(1), Grid(0)>>}}
    \cup {Entry("move", _AnimationInfiniteMove(speed, <<Grid(1), Grid(0)>>)) :
            speed \in LengthSpeeds}
RotateEntries ==
    {Entry("rotate", _AnimationSetRotation(angle, speed, NoPivot, counter_clockwise)) :
        angle \in {HalfTurn, FullTurn - AngleStep}, speed \in AngleSpeeds,
        counter_clockwise \in BOOLEAN}
    \cup {Entry("rotate", _AnimationSetRotation(HalfTurn, speed, Pivot, counter_clockwise)) :
            speed \in PivotSpeeds, counter_clockwise \in BOOLEAN}
    \cup {Entry("rotate", _AnimationRotation(angle, speed)) :
            angle \in {HalfTurn, -AngleStep, FullTurn - AngleStep},
            speed \in AngleSpeeds}
    \cup {Entry("rotate", _AnimationInfiniteRotate(speed, counter_clockwise)) :
            speed \in AngleSpeeds, counter_clockwise \in BOOLEAN}
RotatePointEntries ==
    {Entry("rotate_point",
           _AnimationRotationAroundPoint(HalfTurn, speed, Pivot, rotate_object)) :
        speed \in PivotSpeeds, rotate_object \in BOOLEAN}
    \cup {Entry("rotate_point",
                _AnimationInfiniteRotateAroundPoint(speed, Pivot, TRUE, rotate_object)) :
            speed \in PivotSpeeds, rotate_object \in BOOLEAN}
ScaleEntries ==
    {Entry("scale", _AnimationSetSize(Grid(3), speed, field)) :
        speed \in LengthSpeeds, field \in {"width", "height"}}
    \cup {Entry("scale", _AnimationSizeGrowth(offset, speed, field)) :
            offset \in {Grid(1), Grid(2)}, speed \in LengthSpeeds,
            field \in {"width", "height"}}
TaskEntries == MoveEntries \cup RotateEntries \cup RotatePointEntries \cup ScaleEntries

\* a rotation about a pivot and a rotation of the object are not held together
\* here: the builders given a pivot remove the other one
TaskSets ==
    {<<e>> : e \in TaskEntries}
    \cup {<<e1, e2>> : e1 \in MoveEntries \cup ScaleEntries,
                       e2 \in TaskEntries \ MoveEntries}
    \cup {<<e1, e2>> : e1 \in RotateEntries \cup RotatePointEntries,
                       e2 \in MoveEntries}

TaskInit ==
    /\ WindowInit
    /\ InstancesInit
    /\ transformable = DefaultObject
    /\ previous_state = NoState
    /\ actual_state = NoState
    /\ animations \in TaskSets
    /\ wait = FALSE
    /\ shadow = [transformable |-> DefaultObject, animations |-> animations]
    /\ blend = NoBlend
    /\ tick = NoTick
    /\ built = NoBuilt
    /\ calls = [NoCalls EXCEPT !.given = animations]
    /\ on_stop = FALSE
    /\ fired = 0

TaskNext ==
    \/ AnimationFixedUpdate(FALSE)
    \/ AnimationFixedUpdateReturns
    \/ \E callback \in BOOLEAN : AnimationOnStop(callback)
    \/ \E name \in Slots : TaskStop(name)

TaskSpec == TaskInit /\ [][TaskNext]_vars

\* the ticks of a set whose completion callback may chain a follow-up
ChainNext ==
    \/ \E chains \in BOOLEAN : AnimationFixedUpdate(chains)
    \/ AnimationFixedUpdateReturns
    \/ \E callback \in BOOLEAN : AnimationOnStop(callback)

ChainSpec == TaskInit /\ [][ChainNext]_vars

\* the ticks of a set made inside the fixed_update context of a pool that
\* holds the animated object
PoolNext ==
    \/ PoolFixedUpdate
    \/ AnimationFixedUpdateReturns
    \/ \E callback \in BOOLEAN : AnimationOnStop(callback)

PoolSpec == TaskInit /\ [][PoolNext]_vars

\* the destroy alone: scenes off the stack, awaken or not, with callbacks on
\* their exit stacks or not; any of them is destroyed, any number of times,
\* with its attributes as constructed or as hooks have left them
DestroyInit ==
    /\ stack = <<>>
    /\ awaken \in SUBSET Scenes
    /\ returning_transitions = [s \in Scenes |-> "none"]
    /\ exit_callbacks \in [Scenes -> BOOLEAN]
    /\ running = FALSE
    /\ is_open = TRUE
    /\ accumulator = 0
    /\ pc = "idle"
    /\ sig = NoSig
    /\ req = NoSig
    /\ entered = {}
    /\ closing_i = 1
    /\ animating = FALSE
    /\ raised = "none"
    /\ navigations = 0
    /\ nav = NoNav
    /\ quit_calls = Zero
    /\ released_on_stack = {}
    /\ yielded_with = [s \in Scenes |-> "none"]
    /\ frame = NoFrame
    /\ looping = {}
    /\ callback_after = [s \in Scenes |-> FALSE]
    /\ callback_after_scenes = [s \in Scenes |-> "none"]
    /\ AnimationInit
    /\ destroyed = NotDestroyed
    /\ KindsInit
    /\ GroupInit

\* the attributes a scene of the manager can hold when it is destroyed
SceneFields == [manager : {TRUE}, own : {"fresh", "changed"}, added : BOOLEAN]

\* _SceneManager._destroy_awaken_scene(scene), of a scene that holds the
\* attributes f: __quit__ runs inside the with of the exit stack, whose
\* callbacks run when the with is left, before the attributes are deleted
Destroy(scene, f) ==
    /\ SetLife(DestroyAwakenScene(Life, scene))
    /\ destroyed' =
            [done |-> TRUE, scene |-> scene, was_awaken |-> scene \in awaken,
             before |-> f, after |-> DestroyFields(f, scene \in awaken),
             had_callbacks |-> exit_callbacks[scene],
             quit_saw |-> IF scene \in awaken THEN f ELSE NotCalled,
             callbacks_saw |-> IF exit_callbacks[scene] THEN f ELSE NotCalled]
    /\ UNCHANGED <<returning_transitions, running, is_open, accumulator, pc, sig, req,
                   closing_i, animating, raised, navigations, nav, yielded_with,
                   frame>>
    /\ UNCHANGED <<animation, kinds, group>>

DestroyNext == \E scene \in Scenes, f \in SceneFields : Destroy(scene, f)

DestroySpec == DestroyInit /\ [][DestroyNext]_vars

\* ------------------------------------------------- the registry of kinds

\* no window yet: no kind has an instance
RegistryInit ==
    /\ WindowInit
    /\ AnimationInit
    /\ destroyed = NotDestroyed
    /\ scene_instances = {}
    /\ all_scenes = {}
    /\ constructed = NotConstructed
    /\ GroupInit

\* cls() in user code: Scene.__new__ makes the instance and registers the kind,
\* then Scene.__init__ finds no manager on it and raises TypeError (line 216)
ConstructOutside(cls) ==
    /\ Tries < MaxTries
    /\ LET made == SceneNew(scene_instances, cls)
       IN  /\ scene_instances' = made.instances
           /\ constructed' = [done |-> TRUE, outside |-> TRUE, kind |-> cls,
                              rejected |-> TRUE, before |-> scene_instances,
                              after |-> made.instances, alive |-> all_scenes # {},
                              tries |-> Tries + 1]
    /\ UNCHANGED <<window, animation, destroyed, all_scenes, group>>

\* _SceneManager.__init__, lines 759-771, when no manager is alive; the kinds
\* registered before a new_scene raises stay registered
CreateManager ==
    /\ all_scenes = {}
    /\ Tries < MaxTries
    /\ LET made == NewScenes(scene_instances, AllScenes)
       IN  /\ scene_instances' = made.instances
           /\ all_scenes' = IF made.raised THEN {} ELSE Range(AllScenes)
           /\ constructed' = [done |-> TRUE, outside |-> FALSE, kind |-> made.kind,
                              rejected |-> made.raised, before |-> scene_instances,
                              after |-> made.instances, alive |-> FALSE,
                              tries |-> Tries + 1]
    /\ UNCHANGED <<window, animation, destroyed, group>>

\* _SceneManager.__del__, lines 773-776: __del_scene__ of every scene it holds
DeleteManager ==
    /\ all_scenes # {}
    /\ scene_instances' = scene_instances \ all_scenes
    /\ all_scenes' = {}
    /\ UNCHANGED <<window, animation, destroyed, constructed, group>>

RegistryNext ==
    \/ \E cls \in Scenes : ConstructOutside(cls)
    \/ CreateManager
    \/ DeleteManager

RegistrySpec == RegistryInit /\ [][RegistryNext]_vars

\* ----------------------------------------------------- the layered group

\* the drawables given to the group
Drawables == {"d1", "d2", "d3"}

\* the layers given to add and change_layer
Layers == 0..MaxLayer

\* LayeredGroup.__init__: default_layer
DefaultLayer == 0

LayeredInit ==
    /\ WindowInit
    /\ AnimationInit
    /\ InstancesInit

\* d in layer_dict
InDict(dict, d) == \E i \in 1..Len(dict) : dict[i].obj = d

\* LayeredGroup.get_layer on an object the dictionary holds
GetLayer(dict, d) == dict[CHOOSE i \in 1..Len(dict) : dict[i].obj = d].layer

RECURSIVE Bisect(_, _, _, _)
\* bisect.bisect_right(a, x): the binary search between lo and hi
Bisect(a, x, lo, hi) ==
    IF lo >= hi THEN lo
    ELSE LET mid == (lo + hi) \div 2
         IN  IF x < a[mid + 1] THEN Bisect(a, x, lo, mid)
             ELSE Bisect(a, x, mid + 1, hi)

BisectRight(a, x) == Bisect(a, x, 0, Len(a))

\* list.insert(index, e)
Insert(s, index, e) == SubSeq(s, 1, index) \o <<e>> \o SubSeq(s, index + 1, Len(s))

\* list(get_layer(d) for d in drawable_list)
LayersList(list, dict) == [i \in 1..Len(list) |-> GetLayer(dict, list[i])]

\* dict[d] = layer: a key the dictionary holds keeps its place
DictSet(dict, d, layer) ==
    IF InDict(dict, d)
    THEN [i \in 1..Len(dict) |-> IF dict[i].obj = d THEN [obj |-> d, layer |-> layer]
                                  ELSE dict[i]]
    ELSE Append(dict, [obj |-> d, layer |-> layer])

\* dict.pop(d, None)
DictPop(dict, d) == SelectSeq(dict, LAMBDA e : e.obj # d)

\* LayeredGroup.add(d, layer=layer), or add(d) when no layer is given, for an
\* object the group does not hold (one it holds is skipped)
LayeredAdd(d, given, layer) ==
    /\ d \notin Range(drawable_list)
    /\ LET default_layer == IF given THEN layer ELSE DefaultLayer
           new_dict == IF InDict(layer_dict, d) THEN layer_dict
                       ELSE DictSet(layer_dict, d, default_layer)
           new_layer == GetLayer(new_dict, d)
           index == BisectRight(LayersList(drawable_list, layer_dict), new_layer)
       IN  /\ layer_dict' = new_dict
           /\ drawable_list' = Insert(drawable_list, index, d)
    /\ UNCHANGED <<window, animation, destroyed, kinds>>

\* LayeredGroup.remove(d), for an object the group holds (ValueError otherwise)
LayeredRemove(d) ==
    /\ d \in Range(drawable_list)
    /\ drawable_list' = SeqRemove(drawable_list, d)
    /\ layer_dict' = DictPop(layer_dict, d)
    /\ UNCHANGED <<window, animation, destroyed, kinds>>

\* LayeredGroup.change_layer(d, layer), when it does not return at once and
\* the group holds the object (ValueError otherwise)
ChangeLayer(d, layer) ==
    /\ ~(~InDict(layer_dict, d) /\ layer = DefaultLayer)
    /\ ~(InDict(layer_dict, d) /\ GetLayer(layer_dict, d) = layer)
    /\ d \in Range(drawable_list)
    /\ LET removed == SeqRemove(drawable_list, d)
       IN  drawable_list' = Insert(removed,
                                   BisectRight(LayersList(removed, layer_dict), layer), d)
    /\ layer_dict' = DictSet(layer_dict, d, layer)
    /\ UNCHANGED <<window, animation, destroyed, kinds>>

RECURSIVE GetFromLayer(_, _)
\* LayeredGroup.get_from_layer(layer): the dictionary is gone through in its
\* order, up to the first layer above the one asked for
GetFromLayer(dict, layer) ==
    IF dict = <<>> THEN <<>>
    ELSE IF Head(dict).layer = layer
         THEN <<Head(dict).obj>> \o GetFromLayer(Tail(dict), layer)
         ELSE IF Head(dict).layer > layer THEN <<>>
              ELSE GetFromLayer(Tail(dict), layer)

LayeredNext ==
    \/ \E d \in Drawables, given \in BOOLEAN, layer \in Layers : LayeredAdd(d, given, layer)
    \/ \E d \in Drawables : LayeredRemove(d)
    \/ \E d \in Drawables, layer \in Layers : ChangeLayer(d, layer)

LayeredSpec == LayeredInit /\ [][LayeredNext]_vars

\* ------------------------------------------------------------ type check

TypeOK ==
    /\ Range(stack) \subseteq Scenes
    /\ awaken \subseteq Scenes
    /\ accumulator \in 0..(5 * FixedDelta)
    /\ frame.log \in Seq({"events", "fixed_update", "update_alpha", "update",
                          "render", "present"})
    /\ sig.type \in {"none", "NewScene", "SameScene", "SceneException", "Exception", "Exit"}
    /\ pc \in {"idle", "start", "start_hooks", "loop", "refresh", "finally", "done"}
              \cup FramePcs \cup TransitionPcs

\* ------------------------------------------------------------ properties

\* the last call of a hook was go_to(kind) for a kind below the front
PoppedTo ==
    /\ nav.op = "go_to"
    /\ Len(nav.stack_before) >= 2
    /\ nav.scene \in Range(Tail(nav.stack_before))

\* the request of such a call is in flight, on its way to the main loop
PopInFlight == PoppedTo /\ sig.type = "NewScene"

\* C1: after any sequence of go_to and go_back calls, those ending in SameScene
\* included, the stack never holds the same scene kind twice.
C1_NoKindTwice ==
    \A i, j \in 1..Len(stack) : stack[i] = stack[j] => i = j

\* a go_to ended in SameScene on a stack of three kinds built by earlier calls
C1_Witness ==
    /\ Len(stack) = 3
    /\ nav.op = "go_to"
    /\ sig.type = "SameScene"

\* C2: awake() and destroy alternate for a scene: go_to never invokes awake()
\* on a scene that is already awaken.
C2_AwakeOnlyWhenDormant ==
    nav.awoke # None => nav.awoke \notin nav.awaken_before

\* C3: the exit-stack callbacks of a scene never run while the scene is on the
\* stack, in particular not when another scene is started above it.
C3_CallbacksOnlyWhenClosing == released_on_stack = {}

\* the transition of go_to(B, remove_previous = TRUE), called on stack <<A>>
\* for a kind B that was not on it, has run to its end
C4_Case ==
    /\ pc = "t_end"
    /\ nav.op = "go_to"
    /\ nav.remove
    /\ Len(nav.stack_before) = 1
    /\ nav.scene \notin Range(nav.stack_before)

\* C4: with stack <<A>>, go_to(B, remove_previous = TRUE) and its completed
\* transition leave stack <<B>>, A.on_quit() called exactly once and A not
\* awaken, its exit-stack callbacks run.
C4_RemovePrevious ==
    C4_Case =>
        LET A == nav.stack_before[1]
        IN  /\ stack = <<nav.scene>>
            /\ quit_calls[A] = 1
            /\ A \notin awaken
            /\ ~exit_callbacks[A]

C4_Witness == C4_Case /\ nav.scene \in awaken

\* C5: go_to of the scene at the front raises SameScene and changes nothing:
\* stack, awaken set and returning registry stay as they were, no awake() is
\* invoked, and the SameScene does not end the main loop.
C5_SameSceneNonFatal ==
    /\ (nav.op = "go_to" /\ sig.type = "SameScene") =>
            /\ stack = nav.stack_before
            /\ awaken = nav.awaken_before
            /\ returning_transitions = nav.rt_before
            /\ nav.awoke = None
    /\ pc = "finally" => sig.type # "SameScene"

\* C6: go_to(A) for A below the active scene B pops B and makes A the front;
\* B is closed by the transition; when a returning transition was registered
\* as A yielded, the request carries its hide routine whatever transition
\* this go_to is passed.
C6_ReturnBelow ==
    /\ PopInFlight =>
            LET A == nav.scene
                B == Head(nav.stack_before)
            IN  /\ Head(stack) = A
                /\ B \notin Range(stack)
                /\ sig.actual = A
                /\ sig.previous = B
                /\ nav.yielded_before[A] # "none" =>
                        sig.transition = HideRoutine(nav.yielded_before[A])
    /\ (PoppedTo /\ pc = "t_end") =>
            LET B == Head(nav.stack_before)
            IN  /\ B \notin awaken
                /\ quit_calls[B] = 1

\* A yielded with a returning transition, and the go_to back to it passes
\* another transition
C6_Witness ==
    /\ PopInFlight
    /\ nav.yielded_before[nav.scene] = "returning"
    /\ nav.transition = "plain"

\* C7 as stated: every scene popped by go_to(kind) is in the request's list of
\* closing scenes.
C7_EveryPoppedIsClosing ==
    PopInFlight =>
        \A i \in 1..Len(nav.stack_before) :
            nav.stack_before[i] \notin Range(stack) =>
                nav.stack_before[i] \in Range(sig.closing)

\* C7 amended: go_to(kind) for a kind below the front leaves the stack from
\* kind down, unchanged and in order; the former front is the request's
\* previous scene, and the popped scenes other than it are the request's
\* closing scenes, in pop order.
C7_PoppedButFrontIsClosing ==
    PopInFlight =>
        LET before == nav.stack_before
            k == CHOOSE i \in 1..Len(before) : before[i] = nav.scene
        IN  /\ stack = SubSeq(before, k, Len(before))
            /\ sig.previous = before[1]
            /\ sig.closing = SubSeq(before, 2, k - 1)

\* a scene between the former front and the target was popped
C7_Witness == PopInFlight /\ Len(sig.closing) = 1

\* C8: go_back() on a stack of depth 1 or less closes the window: no request,
\* no other error, stack unchanged; on a deeper stack it behaves as go_to of
\* the scene directly below the front.
C8_GoBack ==
    (nav.op = "go_back" /\ sig.type # "none") =>
        LET before == nav.stack_before
        IN  IF Len(before) <= 1
            THEN /\ sig = Exc("Exit")
                 /\ ~is_open
                 /\ stack = before
                 /\ awaken = nav.awaken_before
                 /\ returning_transitions = nav.rt_before
            ELSE /\ sig.type = "NewScene"
                 /\ sig.previous = before[1]
                 /\ sig.actual = before[2]
                 /\ sig.closing = <<>>
                 /\ sig.transition =
                        IF nav.rt_before[before[2]] # "none"
                        THEN HideRoutine(nav.rt_before[before[2]])
                        ELSE NoRoutine
                 /\ stack = Tail(before)
                 /\ awaken = nav.awaken_before
                 /\ returning_transitions =
                        [s \in Scenes |-> IF s \in {before[1], before[2]}
                                          THEN "none" ELSE nav.rt_before[s]]

\* go_back() was called by the only scene of the stack
C8_Witness ==
    /\ nav.op = "go_back"
    /\ Len(nav.stack_before) = 1
    /\ sig.type = "Exit"

\* C9: every request go_to emits while the loop runs, whichever hook emitted
\* it, is consumed by the main loop: none reaches the finally clause of run().
C9_RequestConsumed == pc = "finally" => sig.type # "NewScene"

\* the hook at pc raised an exception of its own
RaisedByFrameHook(types) ==
    /\ pc \in {"fixed", "alpha", "update", "render"}
    /\ nav.op = "raise"
    /\ sig.type \in types

\* the main loop goes on to its next frame, the stack as it was
LoopContinues ==
    /\ pc' = "loop"
    /\ running'
    /\ stack' = stack
    /\ sig'.type = "none"

\* C10 as stated: an exception raised inside fixed_update, update_alpha,
\* update or render of the active scene is caught by the main loop, which
\* continues with the next frame, stack unchanged.
C10_AnyExceptionCaught ==
    [][RaisedByFrameHook({"Exception", "SceneException"}) => LoopContinues]_vars

\* C10 amended: a SceneException raised inside fixed_update, update_alpha,
\* update or render of the active scene is caught by the main loop, which
\* continues with the next frame, stack unchanged.
C10_SceneExceptionCaught ==
    [][RaisedByFrameHook({"SceneException"}) => LoopContinues]_vars

C10_Witness == RaisedByFrameHook({"SceneException"}) /\ pc = "render"

\* C11: when run() has returned or unwound through its finally clause, for
\* whatever reason, cleanup has reached every scene: the stack is empty and no
\* scene is left awaken.
C11_CleanupReachesEveryScene ==
    (pc = "done" /\ ~running) => (stack = <<>> /\ awaken = {})

FrameWithTicks(k) ==
    <<"events">> \o [i \in 1..k |-> "fixed_update"]
                \o <<"update_alpha", "update", "render", "present">>

\* a loop iteration has completed without a signal
FrameCompleted == pc = "loop" /\ frame.log # <<>>

\* C13: in every loop iteration that completes without a control-transfer
\* signal the active scene sees, in this order, event processing, k >= 0
\* fixed_update calls, one update_alpha call (then update), one render call
\* and one present; no fixed_update follows the update_alpha or the render.
C13_FrameOrder ==
    FrameCompleted =>
        \E k \in 0..Len(frame.log) : frame.log = FrameWithTicks(k)

\* a frame with a fixed update has completed after a scene transition
C13_Witness ==
    /\ FrameCompleted
    /\ "fixed_update" \in Range(frame.log)
    /\ Len(stack) = 2

\* the fixed ticks the frame in progress has executed
Ticks == Len(SelectSeq(frame.log, LAMBDA c : c = "fixed_update"))

\* the fixed-update phase of the frame in progress is over
FixedPhaseOver ==
    /\ frame.log # <<>>
    /\ pc \in {"alpha", "update", "render", "refresh"}

SameState(t, state) ==
    /\ t.angle % FullTurn = state.angle % FullTurn
    /\ t.scale = state.scale
    /\ t.center = state.center

\* C17: an interpolated update with alpha = 0 leaves the object exactly in the
\* previous snapshot, and one with alpha = 1 leaves it exactly in the actual
\* snapshot: rotation (modulo 360), scale and center
C17_EndpointsExact ==
    blend.applied =>
        /\ blend.alpha = 0 => SameState(transformable, previous_state)
        /\ blend.alpha = AlphaSteps => SameState(transformable, actual_state)

\* an update with alpha = 1 between two snapshots that differ in rotation, scale
\* and center
C17_Witness ==
    /\ blend.applied
    /\ blend.alpha = AlphaSteps
    /\ previous_state.angle % FullTurn # actual_state.angle % FullTurn
    /\ previous_state.scale # actual_state.scale
    /\ previous_state.center # actual_state.center

\* C18: the interpolated angle is the start angle plus alpha times the signed
\* arc s from start to end, where s is the one value in [-180, 180) congruent to
\* end - start modulo 360: never more than half a turn, along the shorter arc
C18_ShorterArc ==
    blend.applied =>
        \E s \in (-HalfTurn)..(HalfTurn - 1) :
            /\ (s - (actual_state.angle - previous_state.angle)) % FullTurn = 0
            /\ ((transformable.angle * AlphaSteps)
                    - (previous_state.angle * AlphaSteps + blend.alpha * s))
                 % (FullTurn * AlphaSteps) = 0

\* an update strictly between the snapshots when the end angle is more than half
\* a turn ahead of the start angle, so that the shorter arc goes backwards
C18_Witness ==
    /\ blend.applied
    /\ blend.alpha > 0
    /\ blend.alpha < AlphaSteps
    /\ (actual_state.angle - previous_state.angle) % FullTurn > HalfTurn

\* C15: the actual snapshot a fixed tick leaves, and the tasks it leaves, are
\* those of the same builders and ticks run without any interpolated update,
\* however ticks and interpolated updates were interleaved
C15_SimulationIgnoresRendering ==
    /\ animations = shadow.animations
    /\ tick.done => tick.actual = from_transformable(shadow.transformable)

\* C16 (as stated): the previous snapshot of a fixed update is the object's
\* state on entry, and the actual snapshot is the object's state on exit
C16_PreviousIsEntryState ==
    tick.done =>
        /\ tick.previous = from_transformable(tick.entry)
        /\ ~blend.rendered => tick.actual = from_transformable(transformable)

\* C16 (amended): the previous snapshot of a fixed update is the actual snapshot
\* of the fixed update before it, into which the object is put back on entry
\* (what happened to the object in between is dropped), or the object's state
\* on entry when there is no such snapshot; the actual snapshot is the object's
\* state on exit
C16_PreviousIsLastActual ==
    tick.done =>
        /\ tick.previous = IF tick.before # NoState THEN tick.before
                           ELSE from_transformable(tick.entry)
        /\ from_transformable(tick.restored) = tick.previous
        /\ ~blend.rendered => tick.actual = from_transformable(transformable)

\* a fixed update entered when the object was not in the state of the snapshot
\* the update before it had left
C16_Witness ==
    /\ tick.done
    /\ tick.before # NoState
    /\ from_transformable(tick.entry) # tick.previous

\* C19: a fixed tick goes through the tasks present in the order scale, rotate,
\* rotate_point, move, whatever the order the builders were called in
C19_FixedOrder ==
    tick.done =>
        tick.applied = SelectSeq(<<"scale", "rotate", "rotate_point", "move">>,
                                 LAMBDA name : name \in Range(tick.names))

\* a tick over two tasks whose builders were called in another order
C19_Witness ==
    /\ tick.done
    /\ Len(tick.applied) >= 2
    /\ tick.names # tick.applied

\* the slot of the last builder holds a task just constructed
OwnSlotReplaced ==
    /\ Has(animations, built.name)
    /\ LET task == Get(animations, built.name) IN
        /\ task.animation_started
        /\ task.traveled = 0
        /\ task.actual_angle = 0
        /\ task.actual_value = 0

\* the slot is as it was before the last builder call
SlotUnchanged(name) ==
    /\ Has(animations, name) = Has(built.before, name)
    /\ Has(animations, name) => Get(animations, name) = Get(built.before, name)

\* C20 (as stated): a builder replaces the task in the slot of its kind and
\* leaves the three other slots as they were
C20_OtherSlotsUntouched ==
    built.fresh =>
        /\ OwnSlotReplaced
        /\ \A name \in Slots \ {built.name} : SlotUnchanged(name)

\* the last builder call was one that takes over the other rotation slot
TakesOver(name) ==
    \/ /\ built.builder = "smooth_set_angle"
       /\ built.pivot # NoPivot
       /\ name = "rotate_point"
    \/ /\ built.builder \in {"smooth_rotation_around_point",
                             "infinite_rotation_around_point"}
       /\ built.rotate_object
       /\ name = "rotate"

\* C20 (amended): a builder replaces the task in the slot of its kind and leaves
\* the other slots as they were, except that smooth_set_angle with a pivot
\* empties the rotate_point slot and a rotation around a point with
\* rotate_object empties the rotate slot
C20_OtherSlotsUntouchedUnlessTakenOver ==
    built.fresh =>
        /\ OwnSlotReplaced
        /\ \A name \in Slots \ {built.name} :
            IF TakesOver(name) THEN ~Has(animations, name) ELSE SlotUnchanged(name)

\* smooth_set_angle with a pivot called while a rotation around a point was set
C20_Witness ==
    /\ built.fresh
    /\ built.builder = "smooth_set_angle"
    /\ built.pivot # NoPivot
    /\ Has(built.before, "rotate_point")

\* ------------------------------------------------------------ the tasks

\* a step that is a fixed tick of a started set
TickStep == animation_started(wait, animations) /\ calls'.ticks = calls.ticks + 1

\* C21: a task constructed with speed <= 0 never has work, and a fixed tick of
\* the set leaves the object as the same tick without that task would, whatever
\* the class of the task and whatever runs in the other slots
C21_IdleTaskLeavesObject ==
    [][\A i \in 1..Len(calls.given) :
          LET e == calls.given[i] IN
          e.task.speed <= 0 =>
              /\ ~started(e.task)
              /\ (TickStep /\ Has(animations, e.name)) =>
                     transformable' =
                         FixedTick(Pop(animations, e.name), actual_state,
                                   transformable).transformable]_vars

\* the classes of the tasks that have a target
FiniteClasses ==
    {"_AnimationSetPosition", "_AnimationMove", "_AnimationSetRotation",
     "_AnimationRotation", "_AnimationRotationAroundPoint", "_AnimationSetSize",
     "_AnimationSizeGrowth"}

\* the object on the target of a task it was given at DefaultObject
Target(task) ==
    CASE task.class = "_AnimationSetPosition" -> set_position(DefaultObject, task.position)
      [] task.class = "_AnimationMove" -> translate(DefaultObject, task.vector)
      [] task.class = "_AnimationSetRotation" ->
            set_rotation(DefaultObject, task.angle, task.pivot)
      [] task.class = "_AnimationRotation" ->
            rotate(DefaultObject, task.angle * task.orientation, NoPivot)
      [] task.class = "_AnimationRotationAroundPoint" ->
            IF task.rotate_object
            THEN rotate(DefaultObject, task.angle * task.orientation, task.pivot)
            ELSE rotate_around_point(DefaultObject, task.angle * task.orientation,
                                     task.pivot)
      [] task.class = "_AnimationSetSize" ->
            set_transformable_size(DefaultObject, task.value)
      [] OTHER ->
            set_transformable_size(DefaultObject,
                get_transformable_size(DefaultObject) + task.value * task.orientation)

\* the way left from the object t to the target of the task, along the task's
\* direction; a rotation about a pivot that keeps the object's angle is a single
\* half turn, left whole until the object is on the target
Remaining(task, t) ==
    CASE task.class \in {"_AnimationSetPosition", "_AnimationMove"} ->
            Abs(Target(task).center[1] - t.center[1])
      [] task.class = "_AnimationSetRotation" ->
            IF task.counter_clockwise THEN (Target(task).angle - t.angle) % FullTurn
            ELSE (t.angle - Target(task).angle) % FullTurn
      [] task.class = "_AnimationRotation" ->
            ((Target(task).angle - t.angle) * task.orientation) % FullTurn
      [] task.class = "_AnimationRotationAroundPoint" ->
            IF task.rotate_object
            THEN ((Target(task).angle - t.angle) * task.orientation) % FullTurn
            ELSE IF t.center = Target(task).center THEN 0 ELSE task.angle
      [] OTHER -> Abs(Target(task).scale - t.scale)

\* the set was given the single task it holds, a task with a target and a
\* positive speed, and no task was stopped from outside a tick
SingleTask ==
    /\ Len(calls.given) = 1
    /\ calls.given[1].task.class \in FiniteClasses
    /\ calls.given[1].task.speed > 0
    /\ ~calls.stopped
Given == calls.given[1].task
Finished(d) == ~has_animation_started(d)

\* C22: on each fixed tick a task with a target advances toward it by its step
\* without passing it, and on the tick where the way left is at most the step
\* the object is put exactly on the target and the task is finished by the end
\* of that tick
C22_StepsThenSnapsAndFinishes ==
    [][(SingleTask /\ TickStep) =>
          LET left == Remaining(Given, transformable) IN
          /\ Remaining(Given, transformable') = left - Min(left, Given.speed)
          /\ left <= Given.speed =>
                 /\ transformable' = Target(Given)
                 /\ Finished(animations')]_vars

\* ceil(a / b) of positive integers
CeilDiv(a, b) == (a + b - 1) \div b

\* the set was given a single smooth_rotation(A, speed) with A > 0
SingleRotation ==
    SingleTask /\ Given.class = "_AnimationRotation" /\ Given.orientation = 1

\* C23: smooth_rotation(A, speed) with A > 0 and a step s > 0 has turned the
\* object by s on each of the first ticks, by exactly A in total after
\* ceil(A / s) fixed ticks, and turns it no further on later ticks
C23_RotationTotal ==
    SingleRotation =>
        IF calls.ticks >= CeilDiv(Given.angle, Given.speed)
        THEN transformable = Target(Given)
        ELSE transformable = rotate(DefaultObject, calls.ticks * Given.speed, NoPivot)

\* a rotation that takes two ticks, the last one shorter, and a later tick
C23_Witness ==
    /\ SingleRotation
    /\ CeilDiv(Given.angle, Given.speed) = 2
    /\ Given.angle < 2 * Given.speed
    /\ calls.ticks > 2
    /\ transformable.angle = Given.angle

\* C24: with a single smooth_rotation task and a callback registered, the
\* callback is invoked at most once, and a fixed tick invokes it exactly when it
\* is the tick that brings the object onto the target angle
C24_CallbackOnReachingTick ==
    [][(SingleTask /\ Given.class = "_AnimationRotation") =>
          /\ fired' <= 1
          /\ (TickStep /\ on_stop) =>
                 ((fired' = fired + 1) <=>
                      (transformable # Target(Given) /\ transformable' = Target(Given)))]_vars

\* a step that is a call of TransformAnimation.fixed_update
TickCall == calls'.ticks = calls.ticks + 1

\* C25: a fixed tick of a set that start() has started and that is left with no
\* task with outstanding work pauses the set and invokes the registered
\* callback once, removing it; a fixed tick of a paused set changes nothing and
\* invokes nothing
C25_IdleSetPausesAndCallsBack ==
    [][TickCall =>
          /\ (~wait /\ Finished(animations')) =>
                 /\ wait'
                 /\ ~on_stop'
                 /\ fired' = IF on_stop THEN fired + 1 ELSE fired
          /\ wait =>
                 UNCHANGED <<transformable, animations, wait, on_stop, fired>>]_vars

\* a step that is the first stop() of a task from outside a tick
StopStep == ~calls.stopped /\ calls'.stopped

\* C26: stop() of a task with a target, at any point of its progress, puts the
\* object exactly on the target and leaves the task finished, whatever its class
C26_StopPutsOnTarget ==
    [][(SingleTask /\ StopStep) =>
          /\ transformable' = Target(Given)
          /\ Finished(animations')]_vars

\* ------------------------------------------------------------ the reset

\* C27: from reset() of an interpolator until the next fixed update has
\* completed, an interpolated update with any value leaves the object
\* unchanged, and that fixed update leaves both snapshots again
C27_NoBlendingAfterReset ==
    [][/\ (blend.reset /\ blend'.reset) => transformable' = transformable
       /\ (blend.reset /\ ~blend'.reset) =>
              (previous_state' # NoState /\ actual_state' # NoState)]_vars

\* an update with a positive value after the reset of an interpolator that had
\* drawn the object between two snapshots
C27_Witness ==
    /\ blend.reset
    /\ blend.rendered
    /\ ~blend.applied
    /\ blend.alpha = AlphaSteps
    /\ transformable # DefaultObject

\* ------------------------------------------------------ stack and awaken

\* C29: at every frame boundary (the loop is about to begin an iteration, no
\* NewScene pending) the awaken scenes are exactly the scenes on the stack,
\* also after a go_to whose awake() raised
C29_AwakenIsStack ==
    (pc = "loop" /\ sig.type = "none") => awaken = Range(stack)

\* the last navigation was a go_to (the first one, made by run(), included) of
\* a scene that was not on the stack
Pushed ==
    /\ nav.op \in {"go_to", "run"}
    /\ nav.scene \notin Range(nav.stack_before)

\* the positions of __scene_transition before previous_scene.on_quit()
BeforeQuitPcs == {"t_quit_before", "t_start_before", "t_capture", "t_anim", "t_step"}

\* C30: go_to of a scene that is not on the stack invokes its awake() and, when
\* it raises NewScene, has pushed the scene to the front, awaken; with
\* remove_actual the former front has left the stack at once but stays awaken,
\* its on_quit() not run, until the transition reaches its end; without it the
\* former front stays directly below the new front and stays awaken through the
\* whole transition
C30_PushKeepsPreviousAwaken ==
    /\ (Pushed /\ sig.type # "none") => nav.awoke = nav.scene
    /\ (Pushed /\ sig.type = "NewScene") =>
           /\ nav.scene \in awaken
           /\ stack = <<nav.scene>> \o
                          (IF nav.remove /\ nav.stack_before # <<>>
                           THEN Tail(nav.stack_before) ELSE nav.stack_before)
           /\ nav.awaken_before \subseteq awaken
    /\ (Pushed /\ sig.type = "none" /\ pc \in TransitionPcs /\ nav.stack_before # <<>>) =>
           /\ req.previous = Head(nav.stack_before)
           /\ stack[1] = nav.scene
           /\ nav.scene \in awaken
           /\ IF nav.remove
              THEN /\ req.previous \notin Range(stack)
                   /\ pc \in BeforeQuitPcs =>
                          /\ quit_calls[req.previous] = 0
                          /\ req.previous \in nav.awaken_before =>
                                 req.previous \in awaken
              ELSE /\ stack = <<nav.scene>> \o nav.stack_before
                   /\ req.previous \in nav.awaken_before => req.previous \in awaken

\* a transition under way after a go_to with remove_actual of a scene that was
\* not on the stack: the former front is off the stack and awaken
C30_Witness ==
    /\ pc = "t_anim"
    /\ sig.type = "none"
    /\ nav.op = "go_to"
    /\ nav.remove
    /\ nav.stack_before # <<>>
    /\ nav.scene \notin Range(nav.stack_before)
    /\ stack[1] = nav.scene
    /\ req.previous \notin Range(stack)
    /\ req.previous \in awaken

\* ------------------------------------------------------------ the destroy

\* what both versions of C28 say of the destroy of a scene that was awaken: the
\* quit hook and the exit callbacks found the attributes as they were, the
\* scene has left the awaken set, its attributes are those Scene.__init__
\* makes, and the back-reference to the manager is kept
DestroyedAwaken ==
    /\ destroyed.scene \notin awaken
    /\ destroyed.quit_saw = destroyed.before
    /\ destroyed.had_callbacks => destroyed.callbacks_saw = destroyed.before
    /\ ~exit_callbacks[destroyed.scene]
    /\ destroyed.after = FreshFields

C31_RejectedLeavesRegistry ==
    constructed.done =>
        /\ constructed.rejected => constructed.after = constructed.before
        /\ ~constructed.outside => ~constructed.rejected

\* ------------------------------------------------- the transition's calls

RECURSIVE ClosingCalls(_)
\* the calls a transition makes on its closing scenes, in order
ClosingCalls(closing) ==
    IF closing = <<>> THEN <<>>
    ELSE << <<"on_quit_before_transition", Head(closing)>>, <<"on_quit", Head(closing)>>,
            <<"destroy", Head(closing)>> >> \o ClosingCalls(Tail(closing))

\* the calls of the transition in progress, from P == req.previous to
\* N == req.actual, in the order C32 gives (the routine's steps left out)
TransitionCalls ==
    << <<"on_quit_before_transition", req.previous>>,
       <<"on_start_loop_before_transition", req.actual>>,
       <<"on_quit", req.previous>> >>
    \o (IF req.previous \in Range(stack) THEN <<>> ELSE << <<"destroy", req.previous>> >>)
    \o ClosingCalls(req.closing)
    \o << <<"on_start_loop", req.actual>> >>

\* the calls made so far, the routine's steps left out
CallsMade == SelectSeq(frame.hooks, LAMBDA c : c # RoutineStep)

\* C32: the calls a transition from P to N has made are, at every point, the
\* first ones of: P.on_quit_before_transition, N.on_start_loop_before_transition,
\* P.on_quit, the destroy of P if it left the stack, the quit hooks and the
\* destroy of each closing scene, N.on_start_loop; the steps of the routine all
\* come right after N.on_start_loop_before_transition; the transition that
\* has ended has made them all; and no frame call (fixed_update, update_alpha)
\* is made while it runs (a hook that raises ends the transition and the loop)
C32_TransitionOrder ==
    (pc \in TransitionPcs /\ sig.type = "none") =>
        /\ Len(CallsMade) <= Len(TransitionCalls)
        /\ CallsMade = SubSeq(TransitionCalls, 1, Len(CallsMade))
        /\ \A i \in 1..Len(frame.hooks) : frame.hooks[i] = RoutineStep => i = 3
        /\ (pc \in {"t_anim", "t_step"}) => RoutineStep \in Range(frame.hooks)
        /\ (pc = "t_start") => Len(CallsMade) = Len(TransitionCalls) - 1
        /\ (pc = "t_end") => CallsMade = TransitionCalls
        /\ frame.log = <<>>

\* a transition with a routine has ended that destroyed its previous scene and
\* closed a scene in between
C32_Witness ==
    /\ pc = "t_end"
    /\ sig.type = "none"
    /\ RoutineStep \in Range(frame.hooks)
    /\ req.closing # <<>>
    /\ <<"destroy", req.previous>> \in Range(frame.hooks)
    /\ Len(frame.hooks) = 9

\* the transition in progress follows a go_to (or go_back) to a scene that was
\* on the stack, below the front
PopTransition ==
    /\ pc \in TransitionPcs
    /\ sig.type = "none"
    /\ nav.op \in {"go_to", "go_back"}
    /\ stack # <<>>
    /\ stack[1] \in Range(nav.stack_before)

\* the scenes that were above the present front before the call
PoppedByCall ==
    {nav.stack_before[i] : i \in 1..(IndexOf(nav.stack_before, stack[1]) - 1)}

\* how many times a call was made in the transition in progress
Times(call) == Len(SelectSeq(frame.hooks, LAMBDA c : c = call))

\* C33: when the transition after a go_to to a lower scene has made all its
\* calls, every scene the go_to popped, the former front and the scenes in
\* between, has had on_quit_before_transition and on_quit called exactly once
\* each, and is not awaken
C33_PoppedQuitOnceAndDestroyed ==
    (PopTransition /\ pc = "t_end") =>
        \A s \in PoppedByCall :
            /\ Times(<<"on_quit_before_transition", s>>) = 1
            /\ Times(<<"on_quit", s>>) = 1
            /\ Times(<<"destroy", s>>) = 1
            /\ s \notin awaken
            /\ s \notin Range(stack)

\* a go_to from the front of three scenes to the bottom one has ended
C33_Witness ==
    /\ PopTransition
    /\ pc = "t_end"
    /\ Cardinality(PoppedByCall) = 2

\* ------------------------------------------------------------- the bursts

\* C34 as stated: no fixed phase completes more than 2 calls, and the
\* accumulator never reaches 3 * fixed_delta
C34_AccumulatorBelowThree ==
    /\ pc \in FramePcs => Ticks <= 2
    /\ accumulator < 3 * FixedDelta

\* the time in hand wherever a fixed call can be made
InHand ==
    /\ (pc \in FramePcs /\ frame.log # <<>>) =>
           /\ frame.acc < 3 * FixedDelta
           /\ Ticks * FixedDelta + accumulator <= frame.acc
    /\ pc \in {"loop", "events", "refresh", "t_step"} => accumulator < 3 * FixedDelta
    /\ (pc \in TransitionPcs /\ animating) => accumulator < 3 * FixedDelta

\* C34: no more than 2 fixed calls complete between two refresh() calls.  A
\* fixed phase, of a frame or of the animation loop of a transition, begins
\* with less than 3 * fixed_delta in the accumulator, every call it completes
\* has taken fixed_delta from what the phase began with, and nothing but
\* refresh() adds to the accumulator, which the phase that follows an
\* abandoned frame finds as that frame left it.  The accumulator can reach
\* 3 * fixed_delta only once the routine of a transition has ended, where no
\* fixed call is made before line 629 sets it to 0.
C34_AtMostTwoTicks ==
    /\ []InHand
    /\ [][accumulator' > accumulator => pc \in {"refresh", "t_step"}]_vars

\* two fixed calls were completed in a frame after a stall, and the
\* accumulator holds a remainder
C34_Witness ==
    /\ pc = "alpha"
    /\ Ticks = 2
    /\ frame.acc >= 2 * FixedDelta
    /\ accumulator < FixedDelta

\* ---------------------------------------------------- the hooks, in pairs

\* C35: the start and quit hooks of every scene alternate, on_start_loop()
\* first, so that the on_quit() calls never outnumber the on_start_loop()
\* calls and at most one on_start_loop() call is unmatched: on_quit() is only
\* about to be called on a scene whose last on_start_loop() is unmatched, by
\* a transition on its previous scene and on its closing scenes and by
\* clear() on every scene of the stack, and on_start_loop() only on a scene
\* that has none unmatched
C35_HooksPaired ==
    /\ (pc = "start_hooks" /\ sig.type = "none") => Head(stack) \notin looping
    /\ (pc = "t_start" /\ sig.type = "none") => req.actual \notin looping
    /\ (pc = "t_quit" /\ sig.type = "none") => req.previous \in looping
    /\ (pc = "t_closing" /\ sig.type = "none" /\ closing_i <= Len(req.closing)) =>
           req.closing[closing_i] \in looping
    /\ pc = "finally" => Range(stack) \subseteq looping

\* ------------------------------------------------ returning transitions

\* C36: when an iteration of the loop begins, every scene that has a
\* returning transition registered is on the stack, below the front
C36_ReturningOnStackBelowFront ==
    (pc = "loop" /\ running /\ sig.type = "none") =>
        \A s \in Scenes :
            returning_transitions[s] # "none" => s \in Range(Tail(stack))

\* ------------------------------------------------ the deferred callbacks

\* C37: in a frame, the callbacks the active scene has registered and still
\* holds are the ones _process_callbacks processes
C37_CallbacksOfActiveProcessed ==
    (pc \in FramePcs /\ sig.type = "none" /\ callback_after[Head(stack)]) =>
        /\ Processes(callback_after_scenes, stack)
        /\ callback_after_scenes[Head(stack)] = "list"

\* ------------------------------------------------- the chained callback

\* C38: a callback that the completion callback of the last tick registered
\* with on_stop(), and that no on_stop() call has replaced, is held
C38_ChainedCallbackKept == tick.chained => on_stop

\* ------------------------------------------------------- the nested tick

\* C39: a tick made inside the fixed_update context of the object's
\* interpolator raises nothing, and the tick that finishes the set pauses it
C39_NestedTickCompletes ==
    (tick.done /\ tick.nested) =>
        /\ ~tick.raised
        /\ tick.finished => wait

\* ----------------------------------------------------- the layers asked for

\* C40: get_from_layer(layer) returns the drawables of the group whose layer
\* is the one asked for, all of them and no other
C40_GetFromLayerExact ==
    \A layer \in Layers :
        Range(GetFromLayer(layer_dict, layer))
            = {d \in Range(drawable_list) : GetLayer(layer_dict, d) = layer}
====
